---- MODULE Spec2Model ----
(***************************************************************************)
(* Milestone-Report: the progress-extraction engine of the report scripts  *)
(* (eden.py, wavecityclub.py, ews-lig.py, eligo.py, veridia.py).           *)
(*                                                                         *)
(* Text is a sequence of one-character strings, a number cell is a decimal *)
(* literal, and a Python float is an IEEE binary64 value kept as a sign, a *)
(* 53-bit significand (most significant bit first) and the exponent of its *)
(* last bit, so that float arithmetic rounds as the interpreter rounds it. *)
(* Exponent notation, inf/nan, subnormals and overflow are outside the     *)
(* values the model draws.                                                 *)
(***************************************************************************)
EXTENDS Integers, Sequences, FiniteSets, TLC

VARIABLES
    pc,      \* which operation has run
    raw,     \* the raw cell value handed to a percentage parser
    res,     \* the parser's outcome
    tracker_ws, \* the tracker worksheet a lookup reads
    target,  \* the lookup's target
    look,    \* the lookup's outcome
    sections, \* the (start, end) row ranges the lookup derived from bold rows
    cells,   \* the cells a date counter scans, in scan order
    period,  \* the reporting period: target year and month
    counted, \* the cells the counter counted
    project, \* the report script that runs
    book,    \* the tracker workbook: the content of each sheet, or Absent
    report,  \* the milestone records produced so far
    status,  \* "running", "written" or "aborted"
    kra_targets, \* an activity's targets, month by month
    tracker_counts, \* the activity's completed counts, month by month
    clock_month, \* the month datetime.now() gives
    table,   \* the report-table row a builder made for the activity
    texts,   \* the two texts handed to the match scorer
    score,   \* the scorer's result, in hundredths
    session, \* the front end's st.session_state, one per browser session
    files,   \* the .xlsx files of the working directory
    procs,   \* the report-script processes that are running
    runs,    \* the number of script runs requested so far
    wall_clock \* the time, in units of five minutes

vars == <<pc, raw, res, tracker_ws, target, look, sections,
          cells, period, counted, project, book, report, status,
          kra_targets, tracker_counts, clock_month, table, texts, score,
          session, files, procs, runs, wall_clock>>

parseVars == <<raw, res>>

lookVars == <<tracker_ws, target, look, sections>>

countVars == <<cells, period, counted>>

reportVars == <<project, book, report, status>>

tableVars == <<kra_targets, tracker_counts, clock_month, table>>

scoreVars == <<texts, score>>

appVars == <<session, files, procs, runs, wall_clock>>

-----------------------------------------------------------------------------
(* Characters and strings                                                  *)

Digits == <<"0", "1", "2", "3", "4", "5", "6", "7", "8", "9">>

IsDigit(c) == \E i \in 1..10 : Digits[i] = c

DigitVal(c) == (CHOOSE i \in 1..10 : Digits[i] = c) - 1

IsSpace(c) == c = " "

\* str.strip(): drop leading and trailing whitespace
RECURSIVE LStrip(_)
LStrip(s) == IF s # <<>> /\ IsSpace(Head(s)) THEN LStrip(Tail(s)) ELSE s

RECURSIVE RStrip(_)
RStrip(s) ==
    IF s # <<>> /\ IsSpace(s[Len(s)]) THEN RStrip(SubSeq(s, 1, Len(s) - 1)) ELSE s

Strip(s) == RStrip(LStrip(s))

\* str.replace(c, ""): drop every occurrence of the character c
Remove(s, c) == SelectSeq(s, LAMBDA x : x # c)

\* decimal digits of a natural number, as str() prints them
RECURSIVE NatStr(_)
NatStr(n) ==
    IF n < 10 THEN <<Digits[n + 1]>> ELSE Append(NatStr(n \div 10), Digits[(n % 10) + 1])

\* value of a run of digits
RECURSIVE DigitsVal(_)
DigitsVal(s) ==
    IF s = <<>> THEN 0 ELSE 10 * DigitsVal(SubSeq(s, 1, Len(s) - 1)) + DigitVal(s[Len(s)])

RECURSIVE Pow10(_)
Pow10(k) == IF k = 0 THEN 1 ELSE 10 * Pow10(k - 1)

Range(f) == {f[i] : i \in DOMAIN f}

Min(a, b) == IF a <= b THEN a ELSE b

Max(a, b) == IF a >= b THEN a ELSE b

\* Body with its parameter naming the value e: a local name for a value that
\* is used more than once
With(e, Body(_)) == Body(e)

\* the last of a set of rows in scan order
Last(S) == CHOOSE r \in S : \A x \in S : x <= r

\* the first of a set of rows in scan order
First(S) == CHOOSE r \in S : \A x \in S : r <= x

-----------------------------------------------------------------------------
(* IEEE binary64 (Python float)                                            *)

RECURSIVE Pow2(_)
Pow2(k) == IF k = 0 THEN 1 ELSE 2 * Pow2(k - 1)

\* the w low bits of n, most significant first
Bits(n, w) == [i \in 1..w |-> (n \div Pow2(w - i)) % 2]

\* the number spelled by ten bits
Limb(b) ==
    512 * b[1] + 256 * b[2] + 128 * b[3] + 64 * b[4] + 32 * b[5]
    + 16 * b[6] + 8 * b[7] + 4 * b[8] + 2 * b[9] + b[10]

Zeros(k) == [i \in 1..k |-> 0]

F64Zero == [neg |-> FALSE, e |-> 0, m |-> <<>>]

BitInc(m) ==
    LET k == CHOOSE i \in 1..Len(m) : m[i] = 0 /\ \A j \in (i + 1)..Len(m) : m[j] = 1
    IN  [i \in 1..Len(m) |-> IF i < k THEN m[i] ELSE IF i = k THEN 1 ELSE 0]

\* round-half-even of the binary number q * 2^elsb (+ a remainder) to 53 bits
F64Round(neg, q, rem, elsb) ==
    IF \A i \in 1..Len(q) : q[i] = 0 THEN F64Zero
    ELSE LET p    == CHOOSE i \in 1..Len(q) : q[i] = 1 /\ \A j \in 1..(i - 1) : q[j] = 0
             last == p + 52
             m    == SubSeq(q, p, last)
             rb   == q[last + 1]
             st   == rem # 0 \/ \E j \in (last + 2)..Len(q) : q[j] = 1
             up   == rb = 1 /\ (st \/ m[53] = 1)
             e    == elsb + (Len(q) - last)
         IN  IF ~up THEN [neg |-> neg, e |-> e, m |-> m]
             ELSE IF \A i \in 1..53 : m[i] = 1
                  THEN [neg |-> neg, e |-> e + 1, m |-> <<1>> \o Zeros(52)]
                  ELSE [neg |-> neg, e |-> e, m |-> BitInc(m)]

\* long division of n * 2^(10k) by d, ten bits at a time: the remainder after
\* k further limbs, and the quotient limb the k-th step yields
RECURSIVE DivRem(_, _, _)
DivRem(n, d, k) == IF k = 0 THEN n % d ELSE (DivRem(n, d, k - 1) * 1024) % d

DivLimb(n, d, k) == (DivRem(n, d, k - 1) * 1024) \div d

\* the float nearest to the decimal (-)n/d, for n < 2^20 and d <= 1000
F64FromDec(neg, n, d) ==
    LET q == Bits(n \div d, 20)
             \o Bits(DivLimb(n, d, 1), 10) \o Bits(DivLimb(n, d, 2), 10)
             \o Bits(DivLimb(n, d, 3), 10) \o Bits(DivLimb(n, d, 4), 10)
             \o Bits(DivLimb(n, d, 5), 10) \o Bits(DivLimb(n, d, 6), 10)
             \o Bits(DivLimb(n, d, 7), 10) \o Bits(DivLimb(n, d, 8), 10)
    IN  F64Round(neg, q, DivRem(n, d, 8), -80)

\* the carry out of limb k (limb 1 is the last ten bits) of m * c
RECURSIVE MulCarry(_, _, _)
MulCarry(m, c, k) ==
    IF k = 0 THEN 0
    ELSE (Limb(SubSeq(m, 61 - 10 * k, 70 - 10 * k)) * c + MulCarry(m, c, k - 1)) \div 1024

MulLimb(m, c, k) ==
    (Limb(SubSeq(m, 61 - 10 * k, 70 - 10 * k)) * c + MulCarry(m, c, k - 1)) % 1024

\* x * c for a small positive integer c (c <= 1000), rounded once
F64MulSmall(x, c) ==
    IF x.m = <<>> THEN F64Zero
    ELSE LET m == Zeros(7) \o x.m
             q == Bits(MulCarry(m, c, 6), 10)
                  \o Bits(MulLimb(m, c, 6), 10) \o Bits(MulLimb(m, c, 5), 10)
                  \o Bits(MulLimb(m, c, 4), 10) \o Bits(MulLimb(m, c, 3), 10)
                  \o Bits(MulLimb(m, c, 2), 10) \o Bits(MulLimb(m, c, 1), 10)
                  \o Zeros(2)
         IN  F64Round(x.neg, q, 0, x.e - 2)

BitsLess(a, b) == \E i \in 1..Len(a) : a[i] < b[i] /\ \A j \in 1..(i - 1) : a[j] = b[j]

MagLess(x, y) ==
    IF y.m = <<>> THEN FALSE
    ELSE IF x.m = <<>> THEN TRUE
    ELSE x.e < y.e \/ (x.e = y.e /\ BitsLess(x.m, y.m))

F64Less(x, y) ==
    IF x.neg /\ ~y.neg THEN TRUE
    ELSE IF ~x.neg /\ y.neg THEN FALSE
    ELSE IF x.neg THEN MagLess(y, x)
    ELSE MagLess(x, y)

F64Leq(x, y) == x = y \/ F64Less(x, y)

F64Int(n) == F64FromDec(FALSE, n, 1)

F64One == [neg |-> FALSE, e |-> -52, m |-> <<1>> \o Zeros(52)]

F64Hundred == [neg |-> FALSE, e |-> -46, m |-> <<1, 1, 0, 0, 1, 0, 0>> \o Zeros(46)]

-----------------------------------------------------------------------------
(* Cell values: None, an int, a float written as the decimal n/d, a string *)

None == [k |-> "none", neg |-> FALSE, n |-> 0, d |-> 1, s |-> <<>>]

IntV(neg, n) == [k |-> "int", neg |-> neg, n |-> n, d |-> 1, s |-> <<>>]

FloatV(neg, n, d) == [k |-> "float", neg |-> neg, n |-> n, d |-> d, s |-> <<>>]

StrV(s) == [k |-> "str", neg |-> FALSE, n |-> 0, d |-> 1, s |-> s]

\* isinstance(v, (int, float))
IsNumber(v) == v.k \in {"int", "float"}

ToFloat(v) == F64FromDec(v.neg /\ v.n # 0, v.n, v.d)

\* the digits after the point of n/d, d a power of ten
RECURSIVE FracStr(_, _)
FracStr(f, d) ==
    IF d = 1 THEN <<>>
    ELSE <<Digits[(f \div (d \div 10)) + 1]>> \o FracStr(f % (d \div 10), d \div 10)

\* str(v)
PyStr(v) ==
    LET sign == IF v.neg THEN <<"-">> ELSE <<>>
    IN  CASE v.k = "none"  -> <<"N", "o", "n", "e">>
          [] v.k = "int"   -> sign \o NatStr(v.n)
          [] v.k = "float" ->
                sign \o NatStr(v.n \div v.d) \o <<".">>
                \o (IF v.d = 1 THEN <<"0">> ELSE FracStr(v.n % v.d, v.d))
          [] OTHER         -> v.s

\* bool(v): None, 0, 0.0 and "" are false
Truthy(v) ==
    CASE v.k = "none" -> FALSE
      [] v.k = "str"  -> v.s # <<>>
      [] OTHER        -> v.n # 0

\* the outcome of a call: a float, or an exception that propagates
Ok(x) == [exc |-> "", v |-> x]

Raised(e) == [exc |-> e, v |-> F64Zero]

\* float(s) of a string: [sign] digits [. digits], whitespace around it ignored
PyFloat(s) ==
    LET t     == Strip(s)
        neg   == t # <<>> /\ t[1] = "-"
        body  == IF t # <<>> /\ t[1] \in {"-", "+"} THEN Tail(t) ELSE t
        dots  == {i \in 1..Len(body) : body[i] = "."}
        dot   == IF dots = {} THEN Len(body) + 1 ELSE CHOOSE i \in dots : TRUE
        ip    == SubSeq(body, 1, dot - 1)
        fp    == SubSeq(body, dot + 1, Len(body))
        valid == /\ \A i \in 1..Len(body) : IsDigit(body[i]) \/ body[i] = "."
                 /\ Cardinality(dots) <= 1
                 /\ \E i \in 1..Len(body) : IsDigit(body[i])
    IN  IF valid THEN Ok(F64FromDec(neg /\ DigitsVal(ip \o fp) # 0,
                                    DigitsVal(ip \o fp), Pow10(Len(fp))))
        ELSE Raised("ValueError")

\* v * 100 when 0 <= v <= 1, else v
ScaleUnit(x) ==
    IF F64Leq(F64Zero, x) /\ F64Leq(x, F64One) THEN F64MulSmall(x, 100) ELSE x

\* eden.py parse_percentage_value
parse_percentage_value(pct_val) ==
    IF IsNumber(pct_val) THEN Ok(ScaleUnit(ToFloat(pct_val)))
    ELSE With(Strip(Remove(Remove(PyStr(pct_val), "%"), " ")), LAMBDA pct_str :
             IF pct_str # <<>>
             THEN With(PyFloat(pct_str), LAMBDA result :
                      IF result.exc # "" THEN result ELSE Ok(ScaleUnit(result.v)))
             ELSE Ok(F64Zero))

\* the last index of the run of digits of s that starts at i (i - 1: no digit)
DigitRunEnd(s, i) ==
    CHOOSE j \in (i - 1)..Len(s) :
        /\ \A k \in i..j : IsDigit(s[k])
        /\ (j = Len(s) \/ ~IsDigit(s[j + 1]))

\* re.findall(r'\d+\.?\d*', s)[0], or <<>> when nothing matches
FirstNumber(s) ==
    LET ds == {i \in 1..Len(s) : IsDigit(s[i])}
    IN  IF ds = {} THEN <<>>
        ELSE LET i == CHOOSE x \in ds : \A y \in ds : x <= y
                 j == DigitRunEnd(s, i)
                 e == IF j < Len(s) /\ s[j + 1] = "." THEN DigitRunEnd(s, j + 2) ELSE j
             IN  SubSeq(s, i, e)

\* v * 100 when v <= 1.0, else v
ScaleLeqOne(x) == IF F64Leq(x, F64One) THEN F64MulSmall(x, 100) ELSE x

\* wavecityclub.py extract_percentage
extract_percentage(cell_value) ==
    IF ~Truthy(cell_value) \/ cell_value = StrV(<<"-">>) THEN Ok(F64Zero)
    ELSE IF IsNumber(cell_value) THEN Ok(ScaleLeqOne(ToFloat(cell_value)))
    ELSE With(Strip(Remove(PyStr(cell_value), "%")), LAMBDA val_str :
         With(PyFloat(val_str), LAMBDA val :
             IF val.exc = "" THEN Ok(ScaleLeqOne(val.v))
             ELSE With(FirstNumber(val_str), LAMBDA numbers :
                      IF numbers # <<>> THEN Ok(ScaleLeqOne(PyFloat(numbers).v))
                      ELSE Ok(F64Zero))))

-----------------------------------------------------------------------------
(* String literals of the source                                         *)

WORK_ == <<"w", "o", "r", "k">>

ACTIVITY_ == <<"a", "c", "t", "i", "v", "i", "t", "y">>

AND_ == <<"a", "n", "d">>

THE_ == <<"t", "h", "e">>

OF_ == <<"o", "f">>

FOR_ == <<"f", "o", "r">>

IN_ == <<"i", "n">>

ON_ == <<"o", "n">>

WITH_ == <<"w", "i", "t", "h">>

CHECKING_ == <<"c", "h", "e", "c", "k", "i", "n", "g">>

CASTING_ == <<"c", "a", "s", "t", "i", "n", "g">>

UPPER_BASEMENT_ == <<"u", "p", "p", "e", "r", " ", "b", "a", "s", "e", "m", "e", "n", "t">>

LOWER_BASEMENT_ == <<"l", "o", "w", "e", "r", " ", "b", "a", "s", "e", "m", "e", "n", "t">>

NTA_ == <<"N", "T", "A">>

\* texts a percentage cell can hold that are no number
ABC_ == <<"a", "b", "c">>

AB5_ == <<"a", "b", "5">>

RANGE_ == <<"5", "-", "1", "0", "%">>

NA_ == <<"N", "/", "A">>

-----------------------------------------------------------------------------
(* Text matching                                                           *)

UpperCase == <<"A", "B", "C", "D", "E", "F", "G", "H", "I", "J", "K", "L", "M",
               "N", "O", "P", "Q", "R", "S", "T", "U", "V", "W", "X", "Y", "Z">>

LowerCase == <<"a", "b", "c", "d", "e", "f", "g", "h", "i", "j", "k", "l", "m",
               "n", "o", "p", "q", "r", "s", "t", "u", "v", "w", "x", "y", "z">>

\* str.lower() and str.upper()
Lower(s) ==
    [i \in 1..Len(s) |->
        IF \E k \in 1..26 : UpperCase[k] = s[i]
        THEN LowerCase[CHOOSE k \in 1..26 : UpperCase[k] = s[i]] ELSE s[i]]

Upper(s) ==
    [i \in 1..Len(s) |->
        IF \E k \in 1..26 : LowerCase[k] = s[i]
        THEN UpperCase[CHOOSE k \in 1..26 : LowerCase[k] = s[i]] ELSE s[i]]

\* needle in hay
Contains(hay, needle) ==
    \E i \in 0..(Len(hay) - Len(needle)) : SubSeq(hay, i + 1, i + Len(needle)) = needle

EndsWith(s, c) == s # <<>> /\ s[Len(s)] = c

\* str.isdigit()
IsDigitStr(s) == s # <<>> /\ \A i \in 1..Len(s) : IsDigit(s[i])

\* str.split(): the maximal runs of non-whitespace characters
Split(s) ==
    LET starts == {i \in 1..Len(s) : ~IsSpace(s[i]) /\ (i = 1 \/ IsSpace(s[i - 1]))}
        EndOf(i) == CHOOSE j \in i..Len(s) :
                        /\ \A k \in i..j : ~IsSpace(s[k])
                        /\ (j = Len(s) \/ IsSpace(s[j + 1]))
        Nth(n) == CHOOSE i \in starts : Cardinality({x \in starts : x < i}) = n - 1
    IN  [n \in 1..Cardinality(starts) |-> SubSeq(s, Nth(n), EndOf(Nth(n)))]

\* " ".join(words)
RECURSIVE Join(_)
Join(ws) ==
    IF ws = <<>> THEN <<>>
    ELSE IF Len(ws) = 1 THEN ws[1]
    ELSE ws[1] \o <<" ">> \o Join(Tail(ws))

\* str.replace('&', 'and')
RECURSIVE AmpToAnd(_)
AmpToAnd(s) ==
    IF s = <<>> THEN <<>>
    ELSE (IF Head(s) = "&" THEN <<"a", "n", "d">> ELSE <<Head(s)>>) \o AmpToAnd(Tail(s))

common_words ==
    { WORK_, ACTIVITY_, AND_, THE_, OF_, FOR_, IN_, ON_, WITH_, <<"&">> }

\* eden.py enhanced_text_matching.normalize_text
MatchWords(text) ==
    SelectSeq(Split(AmpToAnd(Lower(text))), LAMBDA w : w \notin common_words /\ Len(w) > 2)

\* eden.py enhanced_text_matching: overlap >= min(len, len) * 0.6
enhanced_text_matching(text1, text2) ==
    With(MatchWords(text1), LAMBDA words1 :
    With(MatchWords(text2), LAMBDA words2 :
        IF words1 = <<>> \/ words2 = <<>> THEN FALSE
        ELSE F64Leq(F64MulSmall(F64FromDec(FALSE, 6, 10), Min(Len(words1), Len(words2))),
                    F64Int(Cardinality(Range(words1) \cap Range(words2))))))

\* the text as written
AsWritten(text) == text

\* eden.py calculate_enhanced_match_score.normalize_text: re.sub(r'\s+', ' ', ...)
NormalizeSpaces(text) == Join(Split(Lower(text)))

\* eden.py calculate_enhanced_match_score, in hundredths (1.0 is 100)
calculate_enhanced_match_score(task_text, child_name_clean) ==
    IF child_name_clean = task_text THEN 100
    ELSE IF NormalizeSpaces(child_name_clean) = NormalizeSpaces(task_text) THEN 100
    ELSE IF Contains(child_name_clean, CHECKING_) /\ Contains(child_name_clean, CASTING_)
         THEN IF Contains(task_text, CHECKING_) /\ Contains(task_text, CASTING_)
              THEN 100 ELSE 0
    ELSE 0

-----------------------------------------------------------------------------
(* Tracker sheets: ws[r] is row r, with the cell values of its columns and *)
(* the bold flag of the font of its task-name cell                         *)

TASK_NAME_COL == 4

PCT_COL == 7

PCT_COL_ALT == <<6, 8, 9, 10, 5>>

\* wavecityclub.py: activity text in column G, progress in column AC
WCC_ACTIVITY_COL == 7

WCC_PROGRESS_COL == 29

Cols == 1..10 \cup {WCC_PROGRESS_COL}

max_row(ws) == Len(ws)

\* ws.cell(row, column).value; a cell outside the used range reads None
CellValue(ws, row, col) == IF row \in 1..Len(ws) THEN ws[row].c[col] ELSE None

\* no row reads as bold
NeverBold(ws, row) == FALSE

\* ws.cell(row, TASK_NAME_COL).font.bold
IsBold(ws, row) == row \in 1..Len(ws) /\ ws[row].bold

StrOf(ws, row, col) == Strip(PyStr(CellValue(ws, row, col)))

\* eden.py find_next_bold_parent
find_next_bold_parent(ws, start_row, maxrow) ==
    With({r \in start_row..maxrow :
             /\ Truthy(CellValue(ws, r, TASK_NAME_COL))
             /\ StrOf(ws, r, TASK_NAME_COL) # <<>>
             /\ IsBold(ws, r)},
         LAMBDA bolds : IF bolds # {} THEN First(bolds) - 1 ELSE maxrow)

\* every row range is allowed
AnyRowRange(section_start, section_end, required_basement_type, nta_number) == TRUE

\* eden.py validate_nta_section_by_row_range
validate_nta_section_by_row_range(section_start, section_end, required_basement_type, nta_number) ==
    IF nta_number = "01" /\ required_basement_type = UPPER_BASEMENT_
    THEN 6 <= section_start /\ section_start <= 35
    ELSE IF nta_number = "02" /\ required_basement_type = LOWER_BASEMENT_
    THEN section_start >= 36
    ELSE TRUE

\* "NTA-nn" and "NTA nn"
NtaDash(nn) == NTA_ \o <<"-">> \o nn

NtaSpace(nn) == NTA_ \o <<" ">> \o nn

NtaDigits(nta_number) == IF nta_number = "01" THEN <<"0", "1">> ELSE <<"0", "2">>

\* the first of a set of cells <<row, col>>, rows in order and columns within
FirstCell(S) ==
    CHOOSE rc \in S : \A x \in S : rc[1] < x[1] \/ (rc[1] = x[1] /\ rc[2] <= x[2])

\* eden.py verify_nta_section_identity: the first cell, row by row, that names
\* an NTA decides
verify_nta_section_identity(ws, section_start, required_nta_number) ==
    LET req    == NtaDigits(required_nta_number)
        wrong  == NtaDigits(IF required_nta_number = "02" THEN "01" ELSE "02")
        Names(cell_str, nn) ==
            Contains(cell_str, NtaDash(nn)) \/ Contains(cell_str, NtaSpace(nn))
    IN  With([rc \in (Max(1, section_start - 10)..(section_start + 4)) \X (1..7) |->
                 Upper(StrOf(ws, rc[1], rc[2]))],
             LAMBDA cell_str :
                With({rc \in DOMAIN cell_str :
                         /\ Truthy(CellValue(ws, rc[1], rc[2]))
                         /\ (Names(cell_str[rc], req) \/ Names(cell_str[rc], wrong))},
                     LAMBDA hits :
                        IF hits = {} THEN TRUE ELSE Names(cell_str[FirstCell(hits)], req)))

\* parent text against a bold row's text, as both call sites match them
ParentMatches(required_parent, found_parent) ==
    \/ Contains(found_parent, required_parent)
    \/ Contains(required_parent, found_parent)
    \/ enhanced_text_matching(required_parent, found_parent)

\* eden.py verify_all_parents_in_section
verify_all_parents_in_section(ws, base_row, required_parents, maxrow) ==
    LET found_parents ==
            {Lower(StrOf(ws, r, TASK_NAME_COL)) :
                r \in {x \in Max(2, base_row - 5)..(Min(base_row + 6, maxrow + 1) - 1) :
                          Truthy(CellValue(ws, x, TASK_NAME_COL)) /\ IsBold(ws, x)}}
    IN  \A i \in 1..Len(required_parents) :
            \E fp \in found_parents : ParentMatches(required_parents[i], fp)

match_threshold == 95

\* eden.py find_exact_child_in_section: the row found, 0 for None
find_exact_child_in_section(ws, start_row, end_row, child_name_clean) ==
    With([r \in {x \in start_row..end_row :
                    /\ CellValue(ws, x, TASK_NAME_COL) # None
                    /\ StrOf(ws, x, TASK_NAME_COL) # <<>>
                    /\ ~IsBold(ws, x)} |->
             calculate_enhanced_match_score(Lower(StrOf(ws, r, TASK_NAME_COL)),
                                            child_name_clean)],
         LAMBDA match_score :
            LET scored == {r \in DOMAIN match_score : match_score[r] > 0}
                best_match_row ==
                    CHOOSE r \in scored :
                        \A x \in scored : \/ match_score[x] < match_score[r]
                                          \/ (match_score[x] = match_score[r] /\ r <= x)
            IN  IF scored # {} /\ match_score[best_match_row] >= match_threshold
                THEN best_match_row ELSE 0)

\* one column of eden.py find_correct_percentage_column: the kind of percentage
\* the cell looks like, "" when it is no candidate
PctKind(cell_val) ==
    With(Strip(PyStr(cell_val)), LAMBDA cell_str :
        IF cell_val = None THEN ""
        ELSE IF EndsWith(cell_str, "%")
        THEN IF IsDigitStr(Remove(Remove(Strip(Remove(cell_str, "%")), "."), "-"))
             THEN "percentage_symbol" ELSE ""
        ELSE IF IsDigitStr(Remove(Remove(cell_str, "."), "-"))
        THEN With(PyFloat(cell_str), LAMBDA num_val :
                 IF num_val.exc # "" THEN ""
                 ELSE IF F64Leq(F64Zero, num_val.v) /\ F64Leq(num_val.v, F64Hundred)
                 THEN "number_0_100"
                 ELSE IF F64Leq(F64Zero, num_val.v) /\ F64Leq(num_val.v, F64One)
                 THEN "decimal_0_1"
                 ELSE "")
        ELSE "")

check_columns == <<PCT_COL>> \o PCT_COL_ALT

priority_order == <<"percentage_symbol", "number_0_100", "decimal_0_1">>

\* eden.py find_correct_percentage_column: [col, val], col 0 and val None
\* for (None, None)
find_correct_percentage_column(ws, row) ==
    With([i \in 1..Len(check_columns) |-> PctKind(CellValue(ws, row, check_columns[i]))],
         LAMBDA type_found :
            LET Rank(i) == CHOOSE k \in 1..3 : priority_order[k] = type_found[i]
                cands == {i \in DOMAIN type_found : type_found[i] # ""}
                pick  == CHOOSE i \in cands :
                             \A x \in cands :
                                 Rank(i) < Rank(x) \/ (Rank(i) = Rank(x) /\ i <= x)
            IN  IF cands = {} THEN [col |-> 0, val |-> None]
                ELSE [col |-> check_columns[pick],
                      val |-> CellValue(ws, row, check_columns[pick])])

-----------------------------------------------------------------------------
(* Activity lookups.  A lookup yields ret, the call's outcome, with the    *)
(* rows of the tracker it read (rows), the row whose cell supplied the     *)
(* percentage (hit, 0 for none)                                            *)

Continue == [exc |-> "continue", v |-> F64Zero]

Look(ret, rows, hit) == [ret |-> ret, rows |-> rows, hit |-> hit]

IsNta(tower) == tower \in {"NTA-01", "NTA-02"}

\* [str(p).strip().lower() for p in parent_names if p is not None and str(p).strip()]
CleanParents(parent_names) ==
    LET kept == SelectSeq(parent_names, LAMBDA p : p # None /\ Strip(PyStr(p)) # <<>>)
    IN  [i \in 1..Len(kept) |-> Lower(Strip(PyStr(kept[i])))]

\* eden.py find_child_activity_pct_with_hierarchy: the basement type and the
\* NTA number the first parent that names a basement gives
BasementOf(parents) ==
    LET idx == {i \in 1..Len(parents) :
                   Contains(parents[i], UPPER_BASEMENT_)
                   \/ Contains(parents[i], LOWER_BASEMENT_)}
        i   == CHOOSE x \in idx : \A y \in idx : x <= y
    IN  IF idx = {} THEN [type |-> <<>>, nta |-> ""]
        ELSE IF Contains(parents[i], UPPER_BASEMENT_)
        THEN [type |-> UPPER_BASEMENT_, nta |-> "01"]
        ELSE [type |-> LOWER_BASEMENT_, nta |-> "02"]

\* step 1 of the hierarchy search: the rows it takes for bold parent rows
Anchors(ws) ==
    {row \in 2..max_row(ws) : Truthy(CellValue(ws, row, TASK_NAME_COL)) /\ IsBold(ws, row)}

\* (section_start, section_end) of the bold row
SectionOf(ws, row) == <<row, find_next_bold_parent(ws, row + 1, max_row(ws))>>

\* step 1 of the hierarchy search: the anchor rows kept as parent sections
ParentSections(ws, parents, tower) ==
    LET maxrow == max_row(ws)
        b      == BasementOf(parents)
        Keep(row) ==
            LET cell_val_clean == Lower(StrOf(ws, row, TASK_NAME_COL))
                section_end    == SectionOf(ws, row)[2]
            IN  /\ row \in Anchors(ws)
                /\ \E i \in 1..Len(parents) : ParentMatches(parents[i], cell_val_clean)
                /\ (IsNta(tower) /\ b.nta # "") =>
                      /\ validate_nta_section_by_row_range(row, section_end, b.type, b.nta)
                      /\ verify_nta_section_identity(ws, row, b.nta)
                /\ verify_all_parents_in_section(ws, row, parents, maxrow)
    IN  {row \in 2..maxrow : Keep(row)}

\* no handler: the exception leaves the loop
Propagate(outcome) == outcome

\* except Exception: continue
CatchContinue(outcome) == IF outcome.exc # "" THEN Continue ELSE outcome

\* step 2, one section: the child row, its percentage cell, the parse
SectionTry(ws, section_start, child_name_clean) ==
    With(find_exact_child_in_section(ws, section_start + 1, SectionOf(ws, section_start)[2],
                                     child_name_clean),
         LAMBDA found_row :
            With(find_correct_percentage_column(ws, found_row).val, LAMBDA pct_val :
                IF found_row = 0 \/ pct_val = None THEN Look(Continue, {}, 0)
                ELSE Look(CatchContinue(parse_percentage_value(pct_val)), {}, found_row)))

\* str(child_name).strip().lower(), whatever child_name is
CleanChildUnguarded(child_name) == Lower(Strip(PyStr(child_name)))

\* str(child_name).strip().lower() if child_name else ""
CleanChild(child_name) ==
    IF Truthy(child_name) THEN Lower(Strip(PyStr(child_name))) ELSE <<>>

\* eden.py find_child_activity_pct_with_hierarchy
find_child_activity_pct_with_hierarchy(ws, parent_names, child_name, tower) ==
    LET parents == CleanParents(parent_names)
        child_name_clean == CleanChild(child_name)
    IN  IF parents = <<>> THEN Look(Ok(F64Zero), {}, 0)
        ELSE IF child_name_clean = <<>> THEN Look(Ok(F64Zero), {}, 0)
        ELSE With([section_start \in ParentSections(ws, parents, tower) |->
                      SectionTry(ws, section_start, child_name_clean)],
                  LAMBDA tries :
                     LET done == {r \in DOMAIN tries : tries[r].ret # Continue}
                     IN  IF done = {} THEN Look(Ok(F64Zero), 2..max_row(ws), 0)
                         ELSE Look(tries[First(done)].ret, 2..max_row(ws),
                                   tries[First(done)].hit))

alt_threshold == 95

\* eden.py alternative_percentage_search; its inline parse is the text of
\* parse_percentage_value, inside try/except
alternative_percentage_search(ws, child_name, tower) ==
    LET child_name_clean == Lower(Strip(PyStr(child_name)))
        Try(row) ==
            IF /\ Truthy(CellValue(ws, row, TASK_NAME_COL))
               /\ calculate_enhanced_match_score(Lower(StrOf(ws, row, TASK_NAME_COL)),
                                                 child_name_clean) >= alt_threshold
            THEN With(find_correct_percentage_column(ws, row).val, LAMBDA pct_val :
                     IF pct_val # None THEN CatchContinue(parse_percentage_value(pct_val))
                     ELSE Continue)
            ELSE Continue
    IN  IF IsNta(tower) THEN Look(Ok(F64Zero), {}, 0)
        ELSE With([row \in 2..max_row(ws) |-> Try(row)], LAMBDA tries :
                 LET done == {r \in DOMAIN tries : tries[r] # Continue}
                 IN  IF done = {} THEN Look(Ok(F64Zero), 2..max_row(ws), 0)
                     ELSE Look(tries[First(done)], 2..First(done), First(done)))

\* the parent names eden.py calculate_percentage_for_current_month reads
KraParents(kra) ==
    LET kept == SelectSeq(kra.parents, LAMBDA p : Truthy(p) /\ Strip(PyStr(p)) # <<>>)
    IN  [i \in 1..Len(kept) |-> StrV(Strip(PyStr(kept[i])))]

KraChild(kra) == IF Truthy(kra.child) THEN StrV(Strip(PyStr(kra.child))) ELSE StrV(<<>>)

\* a lookup's outcome with what the caller did around it: hier is the row the
\* hierarchy search matched, alt whether the alternative search ran
Outcome(l, hier, alt) ==
    [ret |-> l.ret, rows |-> l.rows, hit |-> l.hit, hier |-> hier, alt |-> alt]

\* eden.py calculate_percentage_for_current_month; kra holds the cells of the
\* tower's two parent rows and child row in the month's column, present says
\* whether the workbook has the tower's sheet
calculate_percentage_for_current_month(tower, kra, present, ws) ==
    LET parent_names == KraParents(kra)
        child_name   == KraChild(kra)
    IN  IF parent_names = <<>> \/ ~Truthy(child_name)
        THEN Outcome(Look(Ok(F64Zero), {}, 0), 0, FALSE)
        ELSE IF ~present THEN Outcome(Look(Ok(F64Zero), {}, 0), 0, FALSE)
        ELSE With(find_child_activity_pct_with_hierarchy(ws, parent_names, child_name, tower),
                  LAMBDA pct :
                     IF pct.ret.exc = "" /\ pct.ret.v.m = <<>>
                     THEN With(alternative_percentage_search(ws, child_name, tower),
                               LAMBDA alt :
                                  Outcome(Look(alt.ret, pct.rows \cup alt.rows, alt.hit),
                                          pct.hit, TRUE))
                     ELSE Outcome(pct, pct.hit, FALSE))

-----------------------------------------------------------------------------
(* Wave City Club lookup                                                   *)

NO_TARGET_ == <<"n", "o", " ", "t", "a", "r", "g", "e", "t">>

no_target_phrases ==
    { NO_TARGET_,
      NO_TARGET_ \o <<" ", "f", "o", "r", " ", "j", "u", "n", "e">>,
      NO_TARGET_ \o <<" ", "f", "o", "r", " ", "j", "u", "l", "y">>,
      NO_TARGET_ \o <<" ", "f", "o", "r", " ", "a", "u", "g", "u", "s", "t">>,
      <<"-">> }

\* equal as written, surrounding whitespace aside
SameText(target_activity, tracker_activity) ==
    /\ target_activity # <<>>
    /\ tracker_activity # <<>>
    /\ Strip(target_activity) = Strip(tracker_activity)

\* wavecityclub.py activities_match
activities_match(target_activity, tracker_activity) ==
    /\ target_activity # <<>>
    /\ tracker_activity # <<>>
    /\ \/ Strip(target_activity) = Strip(tracker_activity)
       \/ Lower(Strip(target_activity)) = Lower(Strip(tracker_activity))

special_rows == 60

regular_rows == 20

\* wavecityclub.py find_activity_progress_in_sheet; special says whether the
\* block is one of SPECIAL_BLOCKS_ENHANCED_SEARCH
find_activity_progress_in_sheet(sheet, target_activity, special) ==
    LET max_rows_to_check ==
            Min(max_row(sheet), IF special THEN special_rows ELSE regular_rows)
        ac_value(r) == CellValue(sheet, r, WCC_PROGRESS_COL)
    IN  IF \/ target_activity = <<>>
           \/ Strip(target_activity) = <<>>
           \/ Lower(target_activity) \in no_target_phrases
        THEN Look(Ok(F64Hundred), {}, 0)
        ELSE \* the rows at which the scan returns
             With({r \in 1..max_rows_to_check :
                      /\ Truthy(CellValue(sheet, r, WCC_ACTIVITY_COL))
                      /\ activities_match(target_activity, StrOf(sheet, r, WCC_ACTIVITY_COL))
                      /\ (special \/ ac_value(r) # None)},
                  LAMBDA stops :
                     IF stops = {} THEN Look(Ok(F64Zero), 1..max_rows_to_check, 0)
                     ELSE IF ac_value(First(stops)) = None
                     THEN Look(Ok(F64Zero), 1..First(stops), First(stops))
                     ELSE Look(extract_percentage(ac_value(First(stops))), 1..First(stops),
                               First(stops)))

-----------------------------------------------------------------------------------------------------------------------------------------------------
(* The tracker rows and lookup targets the model draws                     *)

TASK_NAME_ == <<"T", "a", "s", "k", " ", "N", "a", "m", "e">>

PCT_COMPLETE_ == <<"%", " ", "C", "o", "m", "p", "l", "e", "t", "e">>

UPPER_BASEMENT_ROW_ == <<"U", "p", "p", "e", "r", " ", "B", "a", "s", "e", "m", "e", "n", "t">>

CHECKING_AND_CASTING_ == <<"C", "h", "e", "c", "k", "i", "n", "g", " ", "a", "n", "d", " ", "C", "a", "s", "t", "i", "n", "g">>

CHECKING_CASTING_WORK_ == <<"C", "h", "e", "c", "k", "i", "n", "g", " ", "&", " ", "C", "a", "s", "t", "i", "n", "g", " ", "W", "o", "r", "k">>

SHUTTERING_ == <<"S", "h", "u", "t", "t", "e", "r", "i", "n", "g">>

SLAB_CASTING_ == <<"S", "l", "a", "b", " ", "C", "a", "s", "t", "i", "n", "g">>

PLASTER_ == <<"P", "l", "a", "s", "t", "e", "r">>

NO_TARGET_TEXT_ == <<"N", "o", " ", "t", "a", "r", "g", "e", "t">>

BlankCells == [c \in Cols |-> None]

\* a row of an Eden tracker: task name, its font, the % complete cell
Row(task, bold, pct) ==
    [c |-> [BlankCells EXCEPT ![TASK_NAME_COL] = task, ![PCT_COL] = pct], bold |-> bold]

HeaderRow == Row(StrV(TASK_NAME_), TRUE, StrV(PCT_COMPLETE_))

TrackerRows ==
    { Row(StrV(UPPER_BASEMENT_ROW_), TRUE, None),
      Row(StrV(<<" ", " ">>), TRUE, None),
      Row(StrV(CHECKING_AND_CASTING_), FALSE, FloatV(FALSE, 55, 100)),
      Row(StrV(CHECKING_AND_CASTING_), FALSE, IntV(FALSE, 0)),
      Row(StrV(CHECKING_AND_CASTING_), FALSE, StrV(RANGE_)),
      Row(StrV(CHECKING_AND_CASTING_), FALSE, None),
      Row(StrV(SHUTTERING_), FALSE, IntV(FALSE, 40)),
      Row(None, FALSE, None) }

\* a row of a Wave City Club tracker: activity in G, progress in AC
WccRow(activity, progress) ==
    [c |-> [BlankCells EXCEPT ![WCC_ACTIVITY_COL] = activity, ![WCC_PROGRESS_COL] = progress],
     bold |-> FALSE]

WccRows ==
    { WccRow(StrV(SLAB_CASTING_), FloatV(FALSE, 55, 100)),
      WccRow(StrV(SLAB_CASTING_), IntV(FALSE, 0)),
      WccRow(StrV(SLAB_CASTING_), None),
      WccRow(StrV(PLASTER_), IntV(FALSE, 40)),
      WccRow(None, None) }

MaxRows == 3

\* a worksheet: a header row and the rows under it
Sheet(body) == <<HeaderRow>> \o body

\* the workbook has no sheet for the target
Absent == <<>>

Targets ==
    [project : {"eden"}, tower : {"Tower 4", "NTA-01"},
     parents : {<<None, None>>, <<StrV(UPPER_BASEMENT_ROW_), None>>},
     child : {None, StrV(<<>>), StrV(CHECKING_CASTING_WORK_)},
     special : {FALSE}]
    \cup
    [project : {"wcc"}, tower : {"Block 1"},
     parents : {<<>>},
     child : {StrV(<<>>), StrV(<<" ">>), StrV(<<"-">>), StrV(NO_TARGET_TEXT_),
              StrV(SLAB_CASTING_), StrV(<<" ">> \o Lower(SLAB_CASTING_))},
     special : BOOLEAN]

-----
(* Percentage parsing: one raw cell value, parsed by either parser         *)

MaxWhole == 150

MaxHundredths == 100

MaxNegative == 5

Idle == [exc |-> "idle", v |-> F64Zero]

JunkText ==
    { <<>>, <<" ">>, <<"-">>, ABC_, AB5_, RANGE_, NA_ }

\* what a cell of a tracker's percentage column can hold
ParseInputs ==
    {None}
    \cup {IntV(FALSE, n) : n \in 0..MaxWhole}
    \cup {IntV(TRUE, n) : n \in 1..MaxNegative}
    \cup {FloatV(FALSE, n, 100) : n \in 0..MaxHundredths}
    \cup {FloatV(FALSE, n, 1) : n \in {55, 100, MaxWhole}}
    \cup {StrV(NatStr(n)) : n \in 0..MaxWhole}
    \cup {StrV(NatStr(n) \o <<"%">>) : n \in 0..MaxWhole}
    \cup {StrV(<<" ">> \o NatStr(n) \o <<" ", "%", " ">>) : n \in 0..MaxWhole}
    \cup {StrV(PyStr(FloatV(FALSE, n, 100))) : n \in 0..MaxHundredths}
    \cup {StrV(t) : t \in JunkText}

\* the variables of the parts a specification leaves out
NoParse == raw = None /\ res = Idle

NoLookup == tracker_ws = <<>> /\ target = None /\ look = Idle /\ sections = {}

NoCount == cells = <<>> /\ period = [year |-> 0, month |-> 0] /\ counted = {}

NoReport == project = "" /\ book = <<>> /\ report = <<>> /\ status = ""

NoScore == texts = <<>> /\ score = 0

NoApp == session = <<>> /\ files = {} /\ procs = {} /\ runs = 0 /\ wall_clock = 0

NoTable == kra_targets = <<>> /\ tracker_counts = <<>> /\ clock_month = 0 /\ table = <<>>

InitParse ==
    /\ pc = "parse"
    /\ raw \in ParseInputs
    /\ res = Idle
    /\ NoLookup /\ NoCount /\ NoReport /\ NoTable /\ NoScore /\ NoApp

\* eden.py: a caller hands the cell to parse_percentage_value
ParseEden ==
    /\ pc = "parse"
    /\ res' = parse_percentage_value(raw)
    /\ pc' = "eden_parsed"
    /\ UNCHANGED <<raw, lookVars, countVars, reportVars, tableVars, scoreVars, appVars>>

\* wavecityclub.py: a caller hands the cell to extract_percentage
ParseWcc ==
    /\ pc = "parse"
    /\ res' = extract_percentage(raw)
    /\ pc' = "wcc_parsed"
    /\ UNCHANGED <<raw, lookVars, countVars, reportVars, tableVars, scoreVars, appVars>>

NextParse == ParseEden \/ ParseWcc

SpecParse == InitParse /\ [][NextParse]_vars

Parsed == pc \in {"eden_parsed", "wcc_parsed"}

\* C1: for every raw cell value the percentage either parser returns lies in
\* the closed range [0, 100]
C1_ParserClamped ==
    (Parsed /\ res.exc = "") =>
        F64Leq(F64Zero, res.v) /\ F64Leq(res.v, F64Hundred)

\* the non-negative decimal a numeric cell, or a numeric string with its '%'
\* and surrounding whitespace taken off, spells
SpelledDecimal(v) ==
    LET t    == Strip(Remove(v.s, "%"))
        dots == {i \in 1..Len(t) : t[i] = "."}
        dot  == IF dots = {} THEN Len(t) + 1 ELSE CHOOSE i \in dots : TRUE
        ip   == SubSeq(t, 1, dot - 1)
        fp   == SubSeq(t, dot + 1, Len(t))
    IN  IF IsNumber(v) THEN [ok |-> ~v.neg, n |-> v.n, d |-> v.d]
        ELSE IF /\ v.k = "str"
                /\ \A i \in 1..Len(t) : IsDigit(t[i]) \/ t[i] = "."
                /\ Cardinality(dots) <= 1
                /\ ip # <<>>
        THEN [ok |-> TRUE, n |-> DigitsVal(ip \o fp), d |-> Pow10(Len(fp))]
        ELSE [ok |-> FALSE, n |-> 0, d |-> 1]

\* v * 100 for 0 <= v <= 1 and v for v > 1, as the float nearest to it
ExpectedPercent(v) ==
    LET x == SpelledDecimal(v)
    IN  IF x.n <= x.d THEN F64FromDec(FALSE, 100 * x.n, x.d)
        ELSE F64FromDec(FALSE, x.n, x.d)

\* C2: a numeric value or numeric string v with 0 <= v <= 1 parses to v * 100
\* and one with v > 1 to v, with or without '%' and surrounding whitespace, so
\* that 0.55, "55" and "55%" all parse to 55.0
C2_DecimalPercentEquivalence ==
    (Parsed /\ SpelledDecimal(raw).ok) => res = Ok(ExpectedPercent(raw))

\* a string that does not parse as a number once '%' and whitespace are off
Unparsable(v) == v.k = "str" /\ PyFloat(Strip(Remove(v.s, "%"))).exc # ""

\* C7: the parser returns 0.0 and does not raise when the raw value is None
\* and when it is a string that cannot be parsed as a number
C7_UnparsableIsZero ==
    (Parsed /\ (raw = None \/ Unparsable(raw))) => res = Ok(F64Zero)

-----------------------------------------------------------------------------
(* Activity-progress lookups: one target looked up in one tracker sheet    *)

InitLookup ==
    /\ pc = "lookup"
    /\ NoParse /\ NoCount /\ NoReport /\ NoTable /\ NoScore /\ NoApp
    /\ target \in Targets
    /\ \/ target.project = "eden" /\ tracker_ws = Absent
       \/ \E n \in 0..MaxRows :
             \E body \in [1..n -> IF target.project = "eden" THEN TrackerRows ELSE WccRows] :
                tracker_ws = Sheet(body)
    /\ look = Outcome(Look(Idle, {}, 0), 0, FALSE)
    /\ sections = {}

\* the sections step 1 of the hierarchy search computes, when it runs
SectionsComputed(ws, parent_names, child_name) ==
    IF CleanParents(parent_names) = <<>> \/ CleanChild(child_name) = <<>> THEN {}
    ELSE {SectionOf(ws, row) : row \in Anchors(ws)}

\* eden.py: find_child_activity_pct_with_hierarchy called on the tower's sheet
HierMatch ==
    /\ pc = "lookup"
    /\ target.project = "eden"
    /\ tracker_ws # Absent
    /\ \E h \in {find_child_activity_pct_with_hierarchy(tracker_ws, target.parents,
                                                          target.child, target.tower)} :
           look' = Outcome(h, h.hit, FALSE)
    /\ sections' = SectionsComputed(tracker_ws, target.parents, target.child)
    /\ pc' = "hier"
    /\ UNCHANGED <<parseVars, tracker_ws, target, countVars, reportVars, tableVars, scoreVars, appVars>>

\* eden.py: calculate_percentage_for_current_month for the tower and month
CalcPct ==
    /\ pc = "lookup"
    /\ target.project = "eden"
    /\ LET kra == [parents |-> target.parents, child |-> target.child]
       IN  /\ look' = calculate_percentage_for_current_month(
                          target.tower, kra, tracker_ws # Absent, tracker_ws)
           /\ sections' = IF tracker_ws = Absent THEN {}
                          ELSE SectionsComputed(tracker_ws, KraParents(kra), KraChild(kra))
    /\ pc' = "calc"
    /\ UNCHANGED <<parseVars, tracker_ws, target, countVars, reportVars, tableVars, scoreVars, appVars>>

\* wavecityclub.py: find_activity_progress_in_sheet for the block's activity
WccLookup ==
    /\ pc = "lookup"
    /\ target.project = "wcc"
    /\ \E w \in {find_activity_progress_in_sheet(tracker_ws, target.child.s,
                                                   target.special)} :
           look' = Outcome(w, w.hit, FALSE)
    /\ pc' = "wcc"
    /\ UNCHANGED <<parseVars, tracker_ws, target, sections, countVars, reportVars, tableVars, scoreVars, appVars>>

NextLookup == HierMatch \/ CalcPct \/ WccLookup

SpecLookup == InitLookup /\ [][NextLookup]_vars

LookedUp == pc \in {"hier", "calc", "wcc"}

\* the target's child activity text is empty
ChildEmpty == target.child = None \/ (target.child.k = "str" /\ Strip(target.child.s) = <<>>)

\* C3 as stated: a target whose child activity text is empty makes every
\* lookup read no tracker row and yield 0%
C3_EmptyChildYieldsZero ==
    (LookedUp /\ ChildEmpty) => (look.rows = {} /\ look.ret = Ok(F64Zero))

\* C3: a target whose child activity text is empty makes every lookup read no
\* tracker row; the Eden lookups yield 0% and the Wave City Club lookup 100%
C3_EmptyChildNoSearch ==
    (LookedUp /\ ChildEmpty) =>
        /\ look.rows = {}
        /\ look.hit = 0
        /\ look.ret = IF target.project = "wcc" THEN Ok(F64Hundred) ELSE Ok(F64Zero)

C3_Witness ==
    /\ pc \in {"hier", "wcc"}
    /\ ChildEmpty
    /\ target.project = "eden" => CleanParents(target.parents) # <<>>
    /\ Len(tracker_ws) > 1
    /\ look.rows = {}

\* C4: the hierarchy match, and the alternative search behind it, return a
\* value and propagate no exception, whatever the sheet and the target
C4_MatchNeverRaises ==
    pc \in {"hier", "calc"} => look.ret.exc = ""

\* a section of the target's parent holds the child row, and the row's
\* percentage cell does not parse
C4_Witness ==
    /\ pc = "hier"
    /\ look.ret = Ok(F64Zero)
    /\ \E section_start \in ParentSections(tracker_ws, CleanParents(target.parents),
                                           target.tower) :
          \E found_row \in {find_exact_child_in_section(
                                tracker_ws, section_start + 1,
                                SectionOf(tracker_ws, section_start)[2],
                                CleanChild(target.child))} :
             /\ found_row # 0
             /\ tracker_ws[found_row].c[PCT_COL] = StrV(RANGE_)
             /\ parse_percentage_value(tracker_ws[found_row].c[PCT_COL]).exc = "ValueError"

\* the lookup matched a row, and the row's percentage cell reads 0%
MatchedZero ==
    /\ look.hier # 0
    /\ IF target.project = "wcc"
       THEN /\ CellValue(tracker_ws, look.hier, WCC_PROGRESS_COL) # None
            /\ extract_percentage(CellValue(tracker_ws, look.hier, WCC_PROGRESS_COL))
                   = Ok(F64Zero)
       ELSE parse_percentage_value(find_correct_percentage_column(tracker_ws, look.hier).val)
               = Ok(F64Zero)

\* C5: a lookup that matched a row whose completion reads 0% yields a result
\* other than the one a lookup that matched no row yields (0.0), and the
\* caller keeps it instead of searching again
C5_ZeroDistinctFromNoMatch ==
    (LookedUp /\ MatchedZero) => (look.ret # Ok(F64Zero) /\ ~look.alt)

\* C8: the sections derived from the bold task-name rows do not overlap, and
\* each ends immediately before the next section's anchor row, the last one at
\* the sheet's last row
C8_SectionsPartition ==
    pc \in {"hier", "calc"} =>
        /\ \A a, b \in sections : a # b => (a[2] < b[1] \/ b[2] < a[1])
        /\ \A a \in sections :
              LET later == {b[1] : b \in {x \in sections : x[1] > a[1]}}
              IN  a[2] = IF later = {} THEN max_row(tracker_ws) ELSE First(later) - 1

-----------------------------------------------------------------------------
(* Date counters.  A cell holds no value, a datetime (its year and month   *)
(* are what the counters read) or a text that is no date, and has a fill:  *)
(* its pattern type and the ARGB of its start colour                       *)

GREEN_HEX == "FF92D050"

\* eligo.py count_green_dates_in_month_fixed: green_colors
green_colors == {GREEN_HEX, "92D050", "FF92D050", "00FF92D050"}

MONTH_TO_NUM == [June |-> 6, July |-> 7, August |-> 8]

\* datetime.strftime("%B") of the months the cells hold
MonthName(month) == IF month = 6 THEN "June" ELSE IF month = 5 THEN "May" ELSE "July"

IsDate(cell) == cell.k = "datetime"

\* eligo.py count_green_dates_in_month_fixed: the cells it counts
count_green_dates_in_month_fixed(present, sheet, year, month) ==
    IF ~present THEN {}
    ELSE {i \in DOMAIN sheet :
             /\ IsDate(sheet[i])
             /\ sheet[i].year = year /\ sheet[i].month = month
             /\ sheet[i].fill_type = "solid" /\ sheet[i].rgb \in green_colors}

\* ews-lig.py count_pours, for one month: the cells it counts
count_pours(sheet, month, year) ==
    {i \in DOMAIN sheet :
        /\ IsDate(sheet[i])
        /\ sheet[i].month = MONTH_TO_NUM[month] /\ sheet[i].year = year}

\* veridia.py count_tower6_completed: the cells it counts for June
count_tower6_completed(sheet) ==
    {i \in DOMAIN sheet :
        /\ IsDate(sheet[i])
        /\ MonthName(sheet[i].month) = "June"
        /\ sheet[i].fill_type = "solid" /\ sheet[i].rgb # ""
        /\ sheet[i].rgb = GREEN_HEX}

\* veridia.py count_completed_activities_by_module_and_month: the rows it
\* counts for June, sheet[i] being the Actual Finish cell of the i-th row that
\* names a mapped activity
count_completed_activities_by_module_and_month(sheet) ==
    {i \in DOMAIN sheet : IsDate(sheet[i]) /\ MonthName(sheet[i].month) = "June"}

\* ews-lig.py detect_tracker_year
detect_tracker_year(sheet, now_year) ==
    With({sheet[i].year : i \in {x \in DOMAIN sheet : IsDate(sheet[x])}},
         LAMBDA years_found :
            IF years_found # {} THEN CHOOSE y \in years_found : \A z \in years_found : z <= y
            ELSE now_year)

ReportYear == 2025

CellValues ==
    {[k |-> "none", year |-> 0, month |-> 0], [k |-> "text", year |-> 0, month |-> 0]}
    \cup [k : {"datetime"}, year : {ReportYear - 1, ReportYear}, month : {5, 6}]

Fills ==
    { [fill_type |-> "none", rgb |-> "00000000"],
      [fill_type |-> "solid", rgb |-> GREEN_HEX],
      [fill_type |-> "solid", rgb |-> "FFFF0000"],
      [fill_type |-> "gray125", rgb |-> GREEN_HEX] }

Cell(v, f) ==
    [k |-> v.k, year |-> v.year, month |-> v.month, fill_type |-> f.fill_type, rgb |-> f.rgb]

Cells == {Cell(v, f) : v \in CellValues, f \in Fills}

MaxCells == 2

InitCount ==
    /\ pc = "count"
    /\ cells \in UNION {[1..n -> Cells] : n \in 0..MaxCells}
    /\ period \in [year : {ReportYear - 1, ReportYear}, month : {6}]
    /\ counted = {}
    /\ NoParse /\ NoLookup /\ NoReport /\ NoTable /\ NoScore /\ NoApp

\* eligo.py: count_tower_h_completed counts the month's green dates
CountEligo ==
    /\ pc = "count"
    /\ counted' = count_green_dates_in_month_fixed(TRUE, cells, period.year, period.month)
    /\ pc' = "eligo"
    /\ UNCHANGED <<cells, period, parseVars, lookVars, reportVars, tableVars, scoreVars, appVars>>

\* ews-lig.py: main counts a tower's pours of June
CountEwsLig ==
    /\ pc = "count"
    /\ counted' = count_pours(cells, "June", period.year)
    /\ pc' = "ews_lig"
    /\ UNCHANGED <<cells, period, parseVars, lookVars, reportVars, tableVars, scoreVars, appVars>>

\* veridia.py: main counts the Tower 6 slabs
CountTower6 ==
    /\ pc = "count"
    /\ counted' = count_tower6_completed(cells)
    /\ pc' = "veridia_t6"
    /\ UNCHANGED <<cells, period, parseVars, lookVars, reportVars, tableVars, scoreVars, appVars>>

\* veridia.py: get_t5_targets_and_progress counts a module sheet's rows
CountModules ==
    /\ pc = "count"
    /\ counted' = count_completed_activities_by_module_and_month(cells)
    /\ pc' = "veridia_modules"
    /\ UNCHANGED <<cells, period, parseVars, lookVars, reportVars, tableVars, scoreVars, appVars>>

NextCount == CountEligo \/ CountEwsLig \/ CountTower6 \/ CountModules

SpecCount == InitCount /\ [][NextCount]_vars

\* C9: a pour/slab date counter counts a cell only if the cell's fill is solid
\* and its colour is the 'complete' tint
C9_CountedOnlyIfTinted ==
    pc \in {"eligo", "ews_lig", "veridia_t6"} =>
        \A i \in counted : cells[i].fill_type = "solid" /\ cells[i].rgb = GREEN_HEX

\* C10: a counter counts a dated cell or row only if the year and the month of
\* its date are the target year and the target month
C10_CountedOnlyInPeriod ==
    pc \in {"eligo", "veridia_t6", "veridia_modules"} =>
        \A i \in counted :
            cells[i].year = period.year /\ cells[i].month = period.month

-----------------------------------------------------------------------------
(* Report runs: a script turns the tracker workbook into milestone records *)

valid_towers == <<"Tower 4", "Tower 5", "Tower 6", "Tower 7">>

\* the KRA cells of a tower's parent rows and child row
KraCells ==
    [parents |-> <<StrV(UPPER_BASEMENT_ROW_), None>>, child |-> StrV(CHECKING_CASTING_WORK_)]

\* a tower sheet whose child row reads 55%, and one whose child row reads 0
TrackerHalf ==
    <<HeaderRow, Row(StrV(UPPER_BASEMENT_ROW_), TRUE, None),
      Row(StrV(CHECKING_AND_CASTING_), FALSE, FloatV(FALSE, 55, 100))>>

TrackerZero ==
    <<HeaderRow, Row(StrV(UPPER_BASEMENT_ROW_), TRUE, None),
      Row(StrV(CHECKING_AND_CASTING_), FALSE, IntV(FALSE, 0))>>

TRACKER_SHEET == "Revised Baseline 45daysNGT+Rai"

TOWER6_SHEET == "Revised baseline with 60d NGT"

\* the EWS-LIG towers, in the order main reports them; tower i's pour columns
\* are cell i of the sheet
EwsTowers == <<"Tower 1", "Tower 3", "Tower 2">>

\* the frames veridia.py main builds, in order
VeridiaFrames == <<"Tower 6", "Tower 5", "Tower 7", "Green 3">>

PourCells ==
    { Cell([k |-> "datetime", year |-> ReportYear, month |-> 6],
           [fill_type |-> "solid", rgb |-> GREEN_HEX]),
      Cell([k |-> "datetime", year |-> ReportYear, month |-> 5],
           [fill_type |-> "none", rgb |-> "00000000"]) }

Books(p) ==
    CASE p = "eden" ->
            [{valid_towers[i] : i \in DOMAIN valid_towers} -> {Absent, TrackerHalf, TrackerZero}]
      [] p = "ews_lig" ->
            [{TRACKER_SHEET} -> {Absent} \cup [1..Len(EwsTowers) -> PourCells]]
      [] OTHER ->
            [{TOWER6_SHEET} -> {Absent} \cup UNION {[1..n -> PourCells] : n \in 1..MaxCells}]

InitReport ==
    /\ pc = "report"
    /\ project \in {"eden", "ews_lig", "veridia"}
    /\ book \in Books(project)
    /\ report = <<>>
    /\ status = "running"
    /\ NoParse /\ NoLookup /\ NoCount /\ NoTable /\ NoScore /\ NoApp

Record(milestone, done) == [milestone |-> milestone, done |-> done]

\* eden.py main, one turn of the loop over valid_towers: the tower's record is
\* appended; an exception leaves main
EdenTower ==
    /\ project = "eden" /\ status = "running"
    /\ Len(report) < Len(valid_towers)
    /\ \E tower \in {valid_towers[Len(report) + 1]} :
       \E current_month_pct \in {calculate_percentage_for_current_month(
                                    tower, KraCells, book[tower] # Absent, book[tower])} :
          IF current_month_pct.ret.exc # ""
          THEN status' = "aborted" /\ report' = report
          ELSE /\ report' = Append(report, Record(tower, current_month_pct.ret.v))
               /\ status' = status
    /\ UNCHANGED <<pc, project, book, parseVars, lookVars, countVars, tableVars, scoreVars, appVars>>

\* eden.py main after the loop: the report is written
EdenWrite ==
    /\ project = "eden" /\ status = "running"
    /\ Len(report) = Len(valid_towers)
    /\ status' = "written"
    /\ UNCHANGED <<pc, project, book, report, parseVars, lookVars, countVars, tableVars, scoreVars, appVars>>

\* ews-lig.py main: tracker_wb[TRACKER_SHEET] raises KeyError when the
\* workbook has no such sheet; otherwise the three towers are counted and
\* the report is written
EwsLigMain ==
    /\ project = "ews_lig" /\ status = "running"
    /\ IF book[TRACKER_SHEET] = Absent
       THEN status' = "aborted" /\ report' = report
       ELSE \E sheet \in {book[TRACKER_SHEET]} :
            \E tracker_year \in {detect_tracker_year(<<sheet[1]>>, ReportYear)} :
               /\ report' = [i \in 1..Len(EwsTowers) |->
                                Record(EwsTowers[i],
                                       Cardinality(count_pours(<<sheet[i]>>, "June",
                                                               tracker_year)))]
               /\ status' = "written"
    /\ UNCHANGED <<pc, project, book, parseVars, lookVars, countVars, tableVars, scoreVars, appVars>>

\* veridia.py main: count_tower6_completed raises KeyError on wb[...] when the
\* workbook has no such sheet; otherwise the four frames are built (the module
\* workbooks of Tower 5, Tower 7 and Green 3 hold none of their sheets, so
\* their counts are 0) and the report is written
VeridiaMain ==
    /\ project = "veridia" /\ status = "running"
    /\ IF book[TOWER6_SHEET] = Absent
       THEN status' = "aborted" /\ report' = report
       ELSE /\ report' = [i \in 1..Len(VeridiaFrames) |->
                             Record(VeridiaFrames[i],
                                    IF i = 1
                                    THEN Cardinality(count_tower6_completed(book[TOWER6_SHEET]))
                                    ELSE 0)]
            /\ status' = "written"
    /\ UNCHANGED <<pc, project, book, parseVars, lookVars, countVars, tableVars, scoreVars, appVars>>

NextReport == EdenTower \/ EdenWrite \/ EwsLigMain \/ VeridiaMain

SpecReport == InitReport /\ [][NextReport]_vars

\* the milestones a project's report holds
Milestones ==
    CASE project = "eden" -> {valid_towers[i] : i \in DOMAIN valid_towers}
      [] project = "ews_lig" -> {EwsTowers[i] : i \in DOMAIN EwsTowers}
      [] OTHER -> {VeridiaFrames[i] : i \in DOMAIN VeridiaFrames}

\* the workbook lacks the tracker sheet the milestone is read from
SheetMissing(milestone) ==
    CASE project = "eden" -> book[milestone] = Absent
      [] project = "ews_lig" -> book[TRACKER_SHEET] = Absent
      [] OTHER -> milestone = "Tower 6" /\ book[TOWER6_SHEET] = Absent

\* C6: a tracker sheet absent from the workbook never aborts the run: the
\* report is written with a record for every milestone, 0% for each milestone
\* whose sheet is absent
C6_MissingSheetContinues ==
    pc = "report" =>
        /\ status # "aborted"
        /\ status = "written" =>
              \A m \in Milestones :
                  \E i \in 1..Len(report) :
                      /\ report[i].milestone = m
                      /\ SheetMissing(m) =>
                            report[i].done = IF project = "eden" THEN F64Zero ELSE 0

-----------------------------------------------------------------------------
(* NTA lookups: the Lower Basement sections of a sheet that reaches past   *)
(* row 36                                                                  *)

LOWER_BASEMENT_ROW_ == <<"L", "o", "w", "e", "r", " ", "B", "a", "s", "e", "m", "e", "n", "t">>

NTA01_ROW_ == <<"N", "T", "A", "-", "0", "1">>

\* blank rows between the header and the rows drawn
NtaPad == 32

\* rows drawn under the blank rows: they straddle row 36
NtaRows == 4

NtaKinds ==
    { Row(None, FALSE, None),
      Row(StrV(LOWER_BASEMENT_ROW_), TRUE, None),
      Row(StrV(NTA01_ROW_), TRUE, None),
      Row(StrV(CHECKING_AND_CASTING_), FALSE, FloatV(FALSE, 55, 100)) }

NtaSheet(body) == <<HeaderRow>> \o [i \in 1..NtaPad |-> Row(None, FALSE, None)] \o body

InitNta ==
    /\ pc = "lookup"
    /\ NoParse /\ NoCount /\ NoReport /\ NoTable /\ NoScore /\ NoApp
    /\ target \in [project : {"eden"}, tower : {"NTA-01", "NTA-02", "Tower 4"},
                   parents : {<<StrV(LOWER_BASEMENT_ROW_), None>>},
                   child : {StrV(CHECKING_CASTING_WORK_)},
                   special : {FALSE}]
    /\ \E body \in [1..NtaRows -> NtaKinds] : tracker_ws = NtaSheet(body)
    /\ look = Outcome(Look(Idle, {}, 0), 0, FALSE)
    /\ sections = {}

NextNta == HierMatch \/ CalcPct

SpecNta == InitNta /\ [][NextNta]_vars

\* the NTA-02 search: tower NTA-02 with a parent naming the lower basement
Nta02Search ==
    /\ target.tower = "NTA-02"
    /\ BasementOf(CleanParents(target.parents)).nta = "02"

\* C11: in the NTA-02 search the percentage comes only from a row of a section
\* whose bold anchor row is at or after row 36 and matches the parent; when no
\* such section supplies it the result is 0, whatever earlier sections hold
C11_Nta02OnlyFromRow36 ==
    (pc \in {"hier", "calc"} /\ Nta02Search) =>
        \/ look.hit = 0 /\ look.ret = Ok(F64Zero)
        \/ \E row \in Anchors(tracker_ws) :
              /\ row >= 36
              /\ \E i \in 1..Len(CleanParents(target.parents)) :
                    ParentMatches(CleanParents(target.parents)[i],
                                  Lower(StrOf(tracker_ws, row, TASK_NAME_COL)))
              /\ look.hit \in (row + 1)..SectionOf(tracker_ws, row)[2]

\* a Lower Basement section before row 36 holds the child row, and so does one
\* at or after row 36, which supplied the percentage
C11_Witness ==
    /\ pc = "hier" /\ Nta02Search
    /\ look.hit > 36
    /\ look.ret.exc = "" /\ look.ret.v # F64Zero
    /\ \E row \in Anchors(tracker_ws) :
          /\ row < 36
          /\ StrOf(tracker_ws, row, TASK_NAME_COL) = LOWER_BASEMENT_ROW_
          /\ find_exact_child_in_section(tracker_ws, row + 1, SectionOf(tracker_ws, row)[2],
                                         CleanChild(target.child)) \in (row + 1)..35

-----------------------------------------------------------------------------
(* Report tables: the row a dataframe builder makes for one activity from  *)
(* its monthly targets and completed counts.  Percentages and weightages   *)
(* are in hundredths (100% is 10000)                                       *)

MONTHS == <<"June", "July", "August">>

MonthNames == {MONTHS[i] : i \in DOMAIN MONTHS}

TOWER_G_ACTIVITIES ==
    <<"Water Proofing Works", "HVAC 2nd Fix", "Wall tiling (Toilet & Kitchen)", "Floor tiling">>

\* round(a / b, 0) on the exact quotient, ties to even
RoundHalfEven(a, b) ==
    With(a \div b, LAMBDA q :
        IF 2 * (a % b) > b \/ (2 * (a % b) = b /\ q % 2 = 1) THEN q + 1 ELSE q)

\* min(round((d / t) * 100, 2), 100)
RoundedPct(d, t) == Min(RoundHalfEven(10000 * d, t), 10000)

\* round(100 / total_milestones, 2) if total_milestones else 0
RoundedShare(total_milestones) ==
    IF total_milestones # 0 THEN RoundHalfEven(10000, total_milestones) ELSE 0

\* a percentage cell: "" or f"{val}%"
BlankPct == [shown |-> FALSE, v |-> 0]

PctCell(v) == [shown |-> TRUE, v |-> v]

\* an achieved cell: "", "Planned for <months>", "<count> <unit> out of
\* <target> planned" or "<count> out of <target>"
Text(k, months, count, unit, planned) ==
    [k |-> k, months |-> months, count |-> count, unit |-> unit, planned |-> planned]

BlankText == Text("", <<>>, 0, "", 0)

PlannedFor(months) == Text("planned_for", months, 0, "", 0)

OutOfPlanned(count, unit, planned) == Text("out_of_planned", <<>>, count, unit, planned)

OutOf(count, planned) == Text("out_of", <<>>, count, "", planned)

TableRow(builder, pct, achieved, weightages) ==
    [builder |-> builder, pct |-> pct, achieved |-> achieved, weightages |-> weightages]

\* sum(d[mm] for mm in MONTHS[:i]), counting only the months in only
CumSum(d, i, only) ==
    LET RECURSIVE S(_)
        S(k) == IF k = 0 THEN 0
                ELSE S(k - 1) + (IF MONTHS[k] \in only THEN d[MONTHS[k]] ELSE 0)
    IN  S(i)

\* eligo.py and veridia.py get_previous_months
get_previous_months(current_month) == IF 6 < current_month THEN {"June"} ELSE {}

\* eligo.py build_tower_g_structure_dataframe
build_tower_g_structure_dataframe(targets, completed) ==
    TableRow("eligo_structure",
             [m \in MonthNames |->
                 IF m = "June"
                 THEN IF targets["June"] = 0 THEN PctCell(0)
                      ELSE PctCell(RoundedPct(completed["June"], targets["June"]))
                 ELSE BlankPct],
             [m \in MonthNames |->
                 IF m = "June" THEN OutOfPlanned(completed["June"], "pour cast", targets["June"])
                 ELSE BlankText],
             <<RoundedShare(1)>>)

\* ews-lig.py build_structure_dataframe; its get_previous_months is ["June"]
build_structure_dataframe(targets, completed) ==
    LET prev_months == {"June"}
        cum_targets == [i \in DOMAIN MONTHS |-> CumSum(targets, i, MonthNames)]
        cum_completed == [i \in DOMAIN MONTHS |-> CumSum(completed, i, prev_months)]
    IN  TableRow("ews_lig_structure",
                 [m \in MonthNames |->
                     IF m # "June" THEN BlankPct
                     ELSE IF cum_targets[1] = 0 THEN PctCell(0)
                     ELSE PctCell(RoundedPct(cum_completed[1], cum_targets[1]))],
                 [m \in MonthNames |->
                     IF m = "June" THEN OutOf(completed["June"], targets["June"])
                     ELSE BlankText],
                 <<10000>>)

\* veridia.py build_t6_milestone_dataframe
build_t6_milestone_dataframe(targets, completed, prev_months) ==
    TableRow("veridia_t6",
             [m \in MonthNames |->
                 IF m = "June" /\ m \in prev_months
                 THEN IF targets[m] = 0 THEN PctCell(0)
                      ELSE PctCell(RoundedPct(completed[m], targets[m]))
                 ELSE BlankPct],
             [m \in MonthNames |->
                 IF m = "June" /\ "June" \in prev_months
                 THEN OutOfPlanned(completed["June"], "slab cast", targets["June"])
                 ELSE BlankText],
             <<RoundedShare(1)>>)

\* the months after June whose target is above 0, in the order of MONTHS[1:]
FutureMonths(targets) == SelectSeq(Tail(MONTHS), LAMBDA future_m : targets[future_m] > 0)

\* the row the finishing builders make for one activity: eligo.py
\* build_tower_g_finishing_dataframe and veridia.py get_t5_targets_and_progress
\* run the same text, with their own unit and activity list
FinishingRow(builder, targets, completed, prev_months, unit, total_milestones) ==
    TableRow(builder,
             [m \in MonthNames |->
                 IF m = "June" /\ m \in prev_months
                 THEN IF targets["June"] = 0 THEN PctCell(10000)
                      ELSE PctCell(RoundedPct(completed["June"], targets["June"]))
                 ELSE BlankPct],
             [m \in MonthNames |->
                 IF m = "June" /\ m \in prev_months
                 THEN IF targets[m] = 0 /\ FutureMonths(targets) # <<>>
                      THEN PlannedFor(FutureMonths(targets))
                      ELSE OutOfPlanned(completed[m], unit, targets[m])
                 ELSE BlankText],
             [i \in 1..total_milestones |-> RoundedShare(total_milestones)])

build_tower_g_finishing_dataframe(targets, completed, prev_months) ==
    FinishingRow("eligo_finishing", targets, completed, prev_months, "Flats",
                 Len(TOWER_G_ACTIVITIES))

T5_ACTIVITIES ==
    <<"Installation of Rear & Front balcony UPVC Windows", "EL-Second Fix",
      "Gypsum board false ceiling", "Paint 1st Coat">>

\* veridia.py get_t5_targets_and_progress, the row of a "Flats" activity
get_t5_targets_and_progress(targets, completed, prev_months) ==
    FinishingRow("veridia_t5", targets, completed, prev_months, "Flats", Len(T5_ACTIVITIES))

\* eden.py calculate_dynamic_weightage, in hundredths
calculate_dynamic_weightage(tower) == IF IsNta(tower) THEN 5000 ELSE 10000

\* the weightage column of the Eden table: main gives every tower's row the
\* tower's dynamic weightage
EdenWeightages(towers) ==
    TableRow("eden", [m \in MonthNames |-> BlankPct], [m \in MonthNames |-> BlankText],
             [i \in 1..Len(towers) |-> calculate_dynamic_weightage(towers[i])])

\* the weightage column of the Wave City Club table: every block's row gets
\* site_weighted = round(100 / total_blocks, 2) if total_blocks > 0 else 0
WccWeightages(total_blocks) ==
    TableRow("wcc", [m \in MonthNames |-> BlankPct], [m \in MonthNames |-> BlankText],
             [i \in 1..total_blocks |-> RoundedShare(total_blocks)])

\* the most towers and the most blocks a table holds
MaxTowers == 2

MaxBlocks == 3

\* the largest monthly target and the largest monthly count drawn
MaxTarget == 2

MaxDone == 2

InitTable ==
    /\ pc = "table"
    /\ NoParse /\ NoLookup /\ NoCount /\ NoReport /\ NoScore /\ NoApp
    /\ kra_targets \in [MonthNames -> 0..MaxTarget]
    /\ tracker_counts \in [MonthNames -> 0..MaxDone]
    /\ clock_month \in {6, 7}
    /\ table = <<>>

BuildEligoStructure ==
    /\ pc = "table"
    /\ table' = build_tower_g_structure_dataframe(kra_targets, tracker_counts)
    /\ pc' = "built"
    /\ UNCHANGED <<kra_targets, tracker_counts, clock_month,
                   parseVars, lookVars, countVars, reportVars, scoreVars, appVars>>

BuildEwsLigStructure ==
    /\ pc = "table"
    /\ table' = build_structure_dataframe(kra_targets, tracker_counts)
    /\ pc' = "built"
    /\ UNCHANGED <<kra_targets, tracker_counts, clock_month,
                   parseVars, lookVars, countVars, reportVars, scoreVars, appVars>>

BuildVeridiaT6 ==
    /\ pc = "table"
    /\ table' = build_t6_milestone_dataframe(kra_targets, tracker_counts,
                                             get_previous_months(clock_month))
    /\ pc' = "built"
    /\ UNCHANGED <<kra_targets, tracker_counts, clock_month,
                   parseVars, lookVars, countVars, reportVars, scoreVars, appVars>>

BuildEligoFinishing ==
    /\ pc = "table"
    /\ table' = build_tower_g_finishing_dataframe(kra_targets, tracker_counts,
                                                  get_previous_months(clock_month))
    /\ pc' = "built"
    /\ UNCHANGED <<kra_targets, tracker_counts, clock_month,
                   parseVars, lookVars, countVars, reportVars, scoreVars, appVars>>

BuildVeridiaT5 ==
    /\ pc = "table"
    /\ table' = get_t5_targets_and_progress(kra_targets, tracker_counts,
                                            get_previous_months(clock_month))
    /\ pc' = "built"
    /\ UNCHANGED <<kra_targets, tracker_counts, clock_month,
                   parseVars, lookVars, countVars, reportVars, scoreVars, appVars>>

\* eden.py main: the rows of the towers found in the KRA sheet
BuildEden ==
    /\ pc = "table"
    /\ \E n \in 1..MaxTowers : \E towers \in [1..n -> {"Tower 4", "Tower 5", "NTA-01"}] :
          /\ \A i, j \in 1..n : towers[i] = towers[j] => i = j
          /\ table' = EdenWeightages(towers)
    /\ pc' = "built"
    /\ UNCHANGED <<kra_targets, tracker_counts, clock_month,
                   parseVars, lookVars, countVars, reportVars, scoreVars, appVars>>

\* wavecityclub.py get_wcc_progress_from_tracker_all_months: the rows of the
\* blocks of the targets
BuildWcc ==
    /\ pc = "table"
    /\ \E total_blocks \in 1..MaxBlocks : table' = WccWeightages(total_blocks)
    /\ pc' = "built"
    /\ UNCHANGED <<kra_targets, tracker_counts, clock_month,
                   parseVars, lookVars, countVars, reportVars, scoreVars, appVars>>

NextTable ==
    \/ BuildEligoStructure \/ BuildEwsLigStructure \/ BuildVeridiaT6
    \/ BuildEligoFinishing \/ BuildVeridiaT5
    \/ BuildEden \/ BuildWcc

SpecTable == InitTable /\ [][NextTable]_vars

\* the month's position in MONTHS
MonthIndex(m) == CHOOSE i \in DOMAIN MONTHS : MONTHS[i] = m

\* min(100, 100 * completed / target) at the two decimals the table prints,
\* 100 for a target of 0
CumulativePercent(completed, planned) ==
    IF planned = 0 THEN 10000 ELSE Min(10000, RoundHalfEven(10000 * completed, planned))

\* C12: every percentage cell a table shows for a month holds min(100, 100 *
\* cumulative completed / cumulative target) over the months up to that month,
\* and 100 when that cumulative target is 0
C12_CumulativePercent ==
    pc = "built" =>
        \A m \in MonthNames :
            table.pct[m].shown =>
                table.pct[m].v =
                    CumulativePercent(CumSum(tracker_counts, MonthIndex(m), MonthNames),
                                      CumSum(kra_targets, MonthIndex(m), MonthNames))

\* the sum of a sequence of numbers
SeqSum(q) ==
    LET RECURSIVE S(_)
        S(k) == IF k = 0 THEN 0 ELSE S(k - 1) + q[k]
    IN  S(Len(q))

\* C13: in every table each of the N rows has weightage 100/N, and the
\* weightages of the table's rows sum to 100
C13_WeightagesSumTo100 ==
    pc = "built" =>
        /\ \A i \in DOMAIN table.weightages :
              table.weightages[i] * Len(table.weightages) = 10000
        /\ SeqSum(table.weightages) = 10000

\* the months after June that carry a target above 0
LaterTargets == {m \in {"July", "August"} : kra_targets[m] > 0}

\* C14: when June's own target is 0 and a later month has a target above 0,
\* the achieved text of June names exactly the later months with a target
\* above 0, in month order; otherwise it reads "<count> <unit> out of <target>
\* planned" with June's count and target
C14_AchievedText ==
    (pc = "built" /\ table.achieved["June"] # BlankText) =>
        IF kra_targets["June"] = 0 /\ LaterTargets # {}
        THEN /\ table.achieved["June"].k = "planned_for"
             /\ Range(table.achieved["June"].months) = LaterTargets
             /\ \A i, j \in DOMAIN table.achieved["June"].months :
                   i < j => MonthIndex(table.achieved["June"].months[i])
                            < MonthIndex(table.achieved["June"].months[j])
        ELSE /\ table.achieved["June"].k = "out_of_planned"
             /\ table.achieved["June"].count = tracker_counts["June"]
             /\ table.achieved["June"].planned = kra_targets["June"]

-----------------------------------------------------------------------------
(* Match scores: calculate_enhanced_match_score on two texts               *)

\* the longest text drawn over ScoreLetters
MaxText == 4

ScoreLetters == {"a", "A", " "}

ScoreTexts ==
    UNION {[1..n -> ScoreLetters] : n \in 0..MaxText}
    \cup {CHECKING_ \o <<" ">> \o CASTING_, CHECKING_AND_CASTING_, CHECKING_CASTING_WORK_,
          CHECKING_, SHUTTERING_}

InitScore ==
    /\ pc = "score"
    /\ NoParse /\ NoLookup /\ NoCount /\ NoReport /\ NoTable /\ NoApp
    /\ texts \in ScoreTexts \X ScoreTexts
    /\ score = 0

\* calculate_enhanced_match_score(task_text, child_name_clean)
Score ==
    /\ pc = "score"
    /\ score' = calculate_enhanced_match_score(texts[1], texts[2])
    /\ pc' = "scored"
    /\ UNCHANGED <<texts, parseVars, lookVars, countVars, reportVars, tableVars, appVars>>

NextScore == Score

SpecScore == InitScore /\ [][NextScore]_vars

\* every run of whitespace of the text made one space
SqueezeRuns(s) ==
    LET RECURSIVE Q(_)
        Q(i) == IF i > Len(s) THEN <<>>
                ELSE IF IsSpace(s[i])
                THEN (IF i > 1 /\ IsSpace(s[i - 1]) THEN <<>> ELSE <<" ">>) \o Q(i + 1)
                ELSE <<s[i]>> \o Q(i + 1)
    IN  Q(1)

\* the texts differ at most in letter case and in the length of whitespace runs
SameButCaseAndSpacing(a, b) == SqueezeRuns(Lower(a)) = SqueezeRuns(Lower(b))

\* C15: a non-empty text scores 1.0 against itself, and against every text
\* that differs from it only in letter case or in runs of whitespace
C15_ExactMatchIsOne ==
    (pc = "scored" /\ texts[1] # <<>> /\ texts[2] # <<>>
       /\ SameButCaseAndSpacing(texts[1], texts[2])) => score = 100

\* two different texts, one in another case and with a longer whitespace run
C15_Witness ==
    /\ pc = "scored" /\ score = 100
    /\ texts[1] = <<"a", " ", "A">> /\ texts[2] = <<"A", " ", " ", "a">>

\* the shorter and the longer of the two normalized texts
Shorter == IF Len(NormalizeSpaces(texts[1])) <= Len(NormalizeSpaces(texts[2]))
           THEN NormalizeSpaces(texts[1]) ELSE NormalizeSpaces(texts[2])

Longer == IF Len(NormalizeSpaces(texts[1])) <= Len(NormalizeSpaces(texts[2]))
          THEN NormalizeSpaces(texts[2]) ELSE NormalizeSpaces(texts[1])

\* C16: two different normalized texts, the shorter contained in the longer,
\* score between 0.85 and 0.95, and no text contained in the same longer text
\* that is shorter still scores higher
C16_ContainmentScore ==
    (pc = "scored" /\ Shorter # <<>> /\ Shorter # Longer /\ Contains(Longer, Shorter)) =>
        /\ 85 <= score /\ score <= 95
        /\ \A t \in ScoreTexts :
              (/\ NormalizeSpaces(t) # <<>>
               /\ Contains(Longer, NormalizeSpaces(t))
               /\ Len(NormalizeSpaces(t)) < Len(Shorter)) =>
                  calculate_enhanced_match_score(Longer, NormalizeSpaces(t)) <= score

-----------------------------------------------------------------------------
(* Child lookup: find_exact_child_in_section on a range of rows            *)

ChildRows ==
    { Row(StrV(CHECKING_AND_CASTING_), FALSE, FloatV(FALSE, 55, 100)),
      Row(StrV(CHECKING_AND_CASTING_), TRUE, None),
      Row(StrV(SHUTTERING_), FALSE, IntV(FALSE, 40)),
      Row(StrV(<<" ", " ">>), FALSE, None),
      Row(None, FALSE, None) }

InitChild ==
    /\ pc = "lookup"
    /\ NoParse /\ NoCount /\ NoReport /\ NoTable /\ NoScore /\ NoApp
    /\ target \in [project : {"eden"}, tower : {"Tower 4"},
                   parents : {<<StrV(UPPER_BASEMENT_ROW_), None>>},
                   child : {StrV(CHECKING_CASTING_WORK_), StrV(SHUTTERING_), StrV(PLASTER_)},
                   special : {FALSE}]
    /\ \E n \in 1..MaxRows : \E body \in [1..n -> ChildRows] : tracker_ws = Sheet(body)
    /\ look = Outcome(Look(Idle, {}, 0), 0, FALSE)
    /\ sections = {}

\* find_exact_child_in_section on the rows start_row..end_row of the sheet
ChildLookup ==
    /\ pc = "lookup"
    /\ \E start_row \in 2..max_row(tracker_ws) : \E end_row \in start_row..max_row(tracker_ws) :
          look' = Outcome(Look(Ok(F64Zero), start_row..end_row,
                               find_exact_child_in_section(tracker_ws, start_row, end_row,
                                                           CleanChild(target.child))),
                          0, FALSE)
    /\ pc' = "child"
    /\ UNCHANGED <<parseVars, tracker_ws, target, sections, countVars, reportVars, tableVars,
                   scoreVars, appVars>>

NextChild == ChildLookup

SpecChild == InitChild /\ [][NextChild]_vars

\* the score of a row of the sheet against the target's child
RowScore(r) ==
    calculate_enhanced_match_score(Lower(StrOf(tracker_ws, r, TASK_NAME_COL)),
                                   CleanChild(target.child))

\* the rows of the range searched that are not bold and hold a task name
Candidates ==
    {r \in look.rows : /\ ~tracker_ws[r].bold
                       /\ tracker_ws[r].c[TASK_NAME_COL] # None
                       /\ Strip(PyStr(tracker_ws[r].c[TASK_NAME_COL])) # <<>>}

\* the candidate rows with the highest score, when it reaches 0.8
BestRows ==
    {r \in Candidates : RowScore(r) >= 80 /\ \A x \in Candidates : RowScore(x) <= RowScore(r)}

\* C17: the child lookup returns the earliest of the non-bold, non-empty rows
\* of the range that have the highest score, provided that score reaches 0.8,
\* and no row when no such row reaches it
C17_BestChildRow ==
    pc = "child" =>
        IF BestRows = {} THEN look.hit = 0
        ELSE look.hit \in BestRows /\ \A r \in BestRows : look.hit <= r

\* the range holds a bold row and two plain rows that match the child; the
\* earlier plain row is returned although the bold row comes first
C17_Witness ==
    /\ pc = "child"
    /\ Cardinality(BestRows) >= 2
    /\ \E r \in look.rows : tracker_ws[r].bold /\ r < look.hit /\ RowScore(r) = 100
    /\ look.hit \in BestRows

-----------------------------------------------------------------------------
(* The fallback of calculate_percentage_for_current_month                  *)

\* the hierarchy search ran: the KRA gave parents and a child, and the
\* workbook has the tower's sheet
HierarchyRan ==
    /\ pc = "calc"
    /\ tracker_ws # Absent
    /\ KraParents([parents |-> target.parents, child |-> target.child]) # <<>>
    /\ Truthy(KraChild([parents |-> target.parents, child |-> target.child]))

\* the rows of the whole sheet whose task name matches the target's child
FlatMatches ==
    {r \in 2..max_row(tracker_ws) :
        /\ Truthy(tracker_ws[r].c[TASK_NAME_COL])
        /\ RowScore(r) >= 95}

\* the matching rows that hold a percentage that parses
FlatUsable ==
    {r \in FlatMatches :
        /\ find_correct_percentage_column(tracker_ws, r).val # None
        /\ parse_percentage_value(find_correct_percentage_column(tracker_ws, r).val).exc = ""}

\* C18 as stated: for every target, when the hierarchy search accepts no child
\* the flat scan runs next, and when a row of the sheet matches the child that
\* row supplies the percentage
C18_FlatScanFallback ==
    (HierarchyRan /\ look.hier = 0) =>
        /\ look.alt
        /\ FlatMatches # {} => look.hit \in FlatMatches

\* C18: when the hierarchy search accepts no child the alternative search is
\* called next; for a tower that is no NTA area it scans the whole sheet and
\* the first matching row whose percentage parses supplies the percentage; for
\* an NTA area it scans nothing and the result is 0
C18_FlatScanUnlessNta ==
    (HierarchyRan /\ look.hier = 0) =>
        /\ look.alt
        /\ IF IsNta(target.tower) THEN look.hit = 0 /\ look.ret = Ok(F64Zero)
           ELSE IF FlatUsable = {} THEN look.hit = 0 /\ look.ret = Ok(F64Zero)
           ELSE /\ look.hit \in FlatUsable /\ \A r \in FlatUsable : look.hit <= r
                /\ look.ret = parse_percentage_value(
                                  find_correct_percentage_column(tracker_ws, look.hit).val)

\* no bold row matches the parent, a matching row without a percentage comes
\* before two rows that have one, and the first of these supplied it
C18_Witness ==
    /\ HierarchyRan /\ look.hier = 0 /\ look.alt
    /\ ~IsNta(target.tower)
    /\ Cardinality(FlatUsable) >= 2
    /\ \E r \in FlatMatches \ FlatUsable : r < look.hit
    /\ look.hit \in FlatUsable

\* the target's KRA cells name no parent activity
NoParentLabel == KraParents([parents |-> target.parents, child |-> target.child]) = <<>>

\* C19: when the target has no parent label the child is looked up by a flat
\* scan of the non-bold rows of the sheet, so a row that matches the child and
\* holds a percentage supplies it
C19_NoParentFlatScan ==
    (/\ pc \in {"calc", "hier"}
     /\ tracker_ws # Absent
     /\ NoParentLabel
     /\ Truthy(KraChild([parents |-> target.parents, child |-> target.child]))
     /\ \E r \in FlatUsable : ~IsBold(tracker_ws, r))
    => /\ look.hit \in FlatUsable
       /\ ~IsBold(tracker_ws, look.hit)
       /\ look.ret = parse_percentage_value(
                         find_correct_percentage_column(tracker_ws, look.hit).val)

-----------------------------------------------------------------------------
(* Hierarchy search for a target with a parent and a sub-parent            *)

SubRows == 4

\* rows of a tower sheet: the parent, the sub-parent and a sibling in bold,
\* the child and another activity under them
SubKinds ==
    { Row(StrV(UPPER_BASEMENT_ROW_), TRUE, None),
      Row(StrV(SLAB_CASTING_), TRUE, None),
      Row(StrV(PLASTER_), TRUE, None),
      Row(StrV(CHECKING_AND_CASTING_), FALSE, FloatV(FALSE, 55, 100)),
      Row(StrV(SHUTTERING_), FALSE, IntV(FALSE, 40)),
      Row(None, FALSE, None) }

InitSub ==
    /\ pc = "lookup"
    /\ NoParse /\ NoCount /\ NoReport /\ NoTable /\ NoScore /\ NoApp
    /\ target = [project |-> "eden", tower |-> "Tower 4",
                 parents |-> <<StrV(UPPER_BASEMENT_ROW_), StrV(SLAB_CASTING_)>>,
                 child |-> StrV(CHECKING_CASTING_WORK_), special |-> FALSE]
    /\ \E n \in 0..SubRows : \E body \in [1..n -> SubKinds] : tracker_ws = Sheet(body)
    /\ look = Outcome(Look(Idle, {}, 0), 0, FALSE)
    /\ sections = {}

NextSub == HierMatch \/ CalcPct

SpecSub == InitSub /\ [][NextSub]_vars

\* the bold rows that match the target's sub-parent
SubAnchors ==
    {row \in Anchors(tracker_ws) :
        ParentMatches(CleanParents(target.parents)[2],
                      Lower(StrOf(tracker_ws, row, TASK_NAME_COL)))}

\* C20: when a bold row matching the sub-parent is found, the child row the
\* hierarchy search returns lies under such a row, before the next bold row or
\* the end of the sheet
C20_ChildUnderSubParent ==
    (pc \in {"hier", "calc"} /\ SubAnchors # {} /\ look.hier # 0) =>
        \E a \in SubAnchors : a < look.hier /\ look.hier <= SectionOf(tracker_ws, a)[2]

-----------------------------------------------------------------------------
(* The documented example: an 'Upper Basement' section of a tower sheet    *)

\* the en dash (U+2013), a character that is no letter, digit, space, hyphen
\* or ampersand; written with an ASCII stand-in
EN_DASH == "~"

UB_COLUMN_SHEAR_WALL_ == <<"U", "p", "p", "e", "r", " ", "B", "a", "s", "e", "m", "e", "n", "t", " ", EN_DASH, " ", "C", "o", "l", "u", "m", "n", " ", "&", " ", "S", "h", "e", "a", "r", " ", "W", "a", "l", "l">>

PCT_55_ == <<"5", "5", "%">>

ExampleRowsMax == 3

\* rows of the example sheet: the bold section row, the child with 0.55, with
\* "55%" and with 55, another activity and a blank row
ExampleKinds ==
    { Row(StrV(UB_COLUMN_SHEAR_WALL_), TRUE, None),
      Row(StrV(CHECKING_AND_CASTING_), FALSE, FloatV(FALSE, 55, 100)),
      Row(StrV(CHECKING_AND_CASTING_), FALSE, StrV(PCT_55_)),
      Row(StrV(CHECKING_AND_CASTING_), FALSE, IntV(FALSE, 55)),
      Row(StrV(SHUTTERING_), FALSE, IntV(FALSE, 40)),
      Row(None, FALSE, None) }

InitExample ==
    /\ pc = "lookup"
    /\ NoParse /\ NoCount /\ NoReport /\ NoTable /\ NoScore /\ NoApp
    /\ target = [project |-> "eden", tower |-> "Tower 4",
                 parents |-> <<StrV(UPPER_BASEMENT_ROW_), None>>,
                 child |-> StrV(CHECKING_CASTING_WORK_), special |-> FALSE]
    /\ \E n \in 0..ExampleRowsMax :
          \E body \in [1..n -> ExampleKinds] : tracker_ws = Sheet(body)
    /\ look = Outcome(Look(Idle, {}, 0), 0, FALSE)
    /\ sections = {}

NextExample == HierMatch \/ CalcPct

SpecExample == InitExample /\ [][NextExample]_vars

\* the example's sheet: the bold section row, then the child row holding 0.55
ExampleSheet ==
    /\ Len(tracker_ws) >= 3
    /\ tracker_ws[2] = Row(StrV(UB_COLUMN_SHEAR_WALL_), TRUE, None)
    /\ tracker_ws[3] = Row(StrV(CHECKING_AND_CASTING_), FALSE, FloatV(FALSE, 55, 100))

\* C21: for parent 'Upper Basement' and child 'Checking & Casting Work', the
\* bold row 'Upper Basement (en dash) Column & Shear Wall' followed by the row
\* 'Checking and Casting' with 0.55 yields the percentage 55.0
C21_ExampleYields55 ==
    (pc \in {"hier", "calc"} /\ ExampleSheet) => look.ret = Ok(F64Int(55))

-----------------------------------------------------------------------------
(* The Wave City Club lookup, row by row                                   *)

\* the month has no target activity: empty, '-' or a 'no target' phrase
NoTargetActivity ==
    \/ Strip(target.child.s) = <<>>
    \/ Lower(target.child.s) \in no_target_phrases

\* the rows within the scanned limit whose activity equals the target,
\* ignoring case and surrounding whitespace
WccMatches ==
    {r \in 1..Min(max_row(tracker_ws), IF target.special THEN special_rows ELSE regular_rows) :
        /\ Truthy(CellValue(tracker_ws, r, WCC_ACTIVITY_COL))
        /\ Lower(Strip(StrOf(tracker_ws, r, WCC_ACTIVITY_COL))) = Lower(Strip(target.child.s))}

\* the matching rows whose progress cell is not empty
WccFilled == {r \in WccMatches : CellValue(tracker_ws, r, WCC_PROGRESS_COL) # None}

\* the lookup returned the percentage of row r
WccFromRow(r) ==
    /\ look.hit = r
    /\ look.ret = extract_percentage(CellValue(tracker_ws, r, WCC_PROGRESS_COL))

\* C22 as stated: without a target activity the progress is 100% and no row is
\* scanned; otherwise the result is the percentage of the first row whose
\* activity equals the target, or 0 if there is none
C22_FirstMatchingRow ==
    pc = "wcc" =>
        IF NoTargetActivity THEN look.ret = Ok(F64Hundred) /\ look.rows = {}
        ELSE IF WccMatches = {} THEN look.ret = Ok(F64Zero) /\ look.hit = 0
        ELSE WccFromRow(First(WccMatches))

\* C22: without a target activity the progress is 100% and no row is scanned;
\* for a block with enhanced search the result is the percentage of the first
\* matching row (0 if its progress cell is empty); for any other block it is
\* the percentage of the first matching row whose progress cell is not empty;
\* 0 if there is no such row
C22_FirstFilledRow ==
    pc = "wcc" =>
        IF NoTargetActivity THEN look.ret = Ok(F64Hundred) /\ look.rows = {}
        ELSE IF target.special
        THEN IF WccMatches = {} THEN look.ret = Ok(F64Zero) /\ look.hit = 0
             ELSE WccFromRow(First(WccMatches))
        ELSE IF WccFilled = {} THEN look.ret = Ok(F64Zero) /\ look.hit = 0
             ELSE WccFromRow(First(WccFilled))

\* a block without enhanced search, a target written in another case, a
\* matching row with an empty progress cell above the one that supplied the
\* percentage
C22_Witness ==
    /\ pc = "wcc" /\ ~NoTargetActivity /\ ~target.special
    /\ target.child.s # SLAB_CASTING_
    /\ WccFilled # {} /\ look.hit = First(WccFilled)
    /\ First(WccMatches) < look.hit

-----------------------------------------------------------------------------
(* NTA identity: identifier rows around one 'Upper Basement' anchor        *)

\* the anchor's row, inside the NTA-01 row range, with rows above it both
\* within and beyond the ten rows looked at
IdAnchor == 14

IdLastRow == IdAnchor + 5

MaxMarks == 2

\* the rows that can hold an identifier: above the anchor and under the child
MarkRows == (2..(IdAnchor - 1)) \cup ((IdAnchor + 2)..IdLastRow)

\* a non-bold row whose task-name cell reads "NTA-01" or "NTA-02"
MarkRow(nta_number) == Row(StrV(NtaDash(NtaDigits(nta_number))), FALSE, None)

\* the sheet with the given identifier rows, the anchor and the child under it
IdSheet(marks) ==
    [r \in 1..IdLastRow |->
        IF r = 1 THEN HeaderRow
        ELSE IF r = IdAnchor THEN Row(StrV(UPPER_BASEMENT_ROW_), TRUE, None)
        ELSE IF r = IdAnchor + 1
        THEN Row(StrV(CHECKING_AND_CASTING_), FALSE, IntV(FALSE, 40))
        ELSE IF r \in DOMAIN marks THEN MarkRow(marks[r])
        ELSE Row(None, FALSE, None)]

InitIdentity ==
    /\ pc = "lookup"
    /\ NoParse /\ NoCount /\ NoReport /\ NoTable /\ NoScore /\ NoApp
    /\ target = [project |-> "eden", tower |-> "NTA-01",
                 parents |-> <<StrV(UPPER_BASEMENT_ROW_), None>>,
                 child |-> StrV(CHECKING_CASTING_WORK_), special |-> FALSE]
    /\ \E at \in {S \in SUBSET MarkRows : Cardinality(S) <= MaxMarks} :
          \E marks \in [at -> {"01", "02"}] : tracker_ws = IdSheet(marks)
    /\ look = Outcome(Look(Idle, {}, 0), 0, FALSE)
    /\ sections = {}

NextIdentity == HierMatch \/ CalcPct

SpecIdentity == InitIdentity /\ [][NextIdentity]_vars

\* the rows up to ten above the anchor that hold an NTA identifier
MarksAbove ==
    {r \in (IdAnchor - 10)..(IdAnchor - 1) :
        tracker_ws[r] \in {MarkRow("01"), MarkRow("02")}}

\* the anchor's section was accepted: the child under it was returned
IdAccepted == look.hit = IdAnchor + 1

\* C23: the section is accepted exactly when no identifier lies within ten
\* rows above the anchor or the closest of them names the required NTA
C23_ClosestIdentifierDecides ==
    pc \in {"hier", "calc"} =>
        (IdAccepted <=>
            \/ MarksAbove = {}
            \/ tracker_ws[Last(MarksAbove)] = MarkRow("01"))

-----------------------------------------------------------------------------
(* The percentage column of a matched row                                  *)

\* what a cell of one of the six columns can hold
CellKinds == {"empty", "symbol", "number", "decimal", "text"}

\* a cell of the given kind; the value differs from column to column, so the
\* percentage returned tells the column it came from
CellOf(kind, col) ==
    IF kind = "symbol" THEN StrV(NatStr(40 + col) \o <<"%">>)
    ELSE IF kind = "number" THEN IntV(FALSE, 20 + col)
    ELSE IF kind = "decimal" THEN FloatV(FALSE, 30 + col, 100)
    ELSE IF kind = "text" THEN StrV(ABC_)
    ELSE None

\* the child's row with cells of the given kinds in columns G, F, H, I, J, E
PctRow(kinds) ==
    [c |-> [col \in Cols |->
               IF col = TASK_NAME_COL THEN StrV(CHECKING_AND_CASTING_)
               ELSE IF \E i \in 1..Len(check_columns) : check_columns[i] = col
               THEN CellOf(kinds[CHOOSE i \in 1..Len(check_columns) : check_columns[i] = col],
                           col)
               ELSE None],
     bold |-> FALSE]

PctRowIndex == 3

InitColumn ==
    /\ pc = "lookup"
    /\ NoParse /\ NoCount /\ NoReport /\ NoTable /\ NoScore /\ NoApp
    /\ target = [project |-> "eden", tower |-> "Tower 4",
                 parents |-> <<StrV(UPPER_BASEMENT_ROW_), None>>,
                 child |-> StrV(CHECKING_CASTING_WORK_), special |-> FALSE]
    /\ \E kinds \in [1..Len(check_columns) -> CellKinds] :
          tracker_ws = <<HeaderRow, Row(StrV(UPPER_BASEMENT_ROW_), TRUE, None), PctRow(kinds)>>
    /\ look = Outcome(Look(Idle, {}, 0), 0, FALSE)
    /\ sections = {}

NextColumn == HierMatch \/ CalcPct

SpecColumn == InitColumn /\ [][NextColumn]_vars

\* the claimed rank of a cell: 1 written with '%', 2 a bare number in 0-100,
\* 3 a decimal in 0-1, 0 no percentage
ClaimedRank(v) ==
    IF v.k = "str" /\ EndsWith(v.s, "%") THEN 1
    ELSE IF v.k = "int" THEN 2
    ELSE IF v.k = "float" THEN 3
    ELSE 0

\* the positions in G, F, H, I, J, E order of the cells that hold a percentage
ClaimedCands ==
    {i \in 1..Len(check_columns) :
        ClaimedRank(tracker_ws[PctRowIndex].c[check_columns[i]]) # 0}

\* C24: the cell that supplies the percentage is the one of the best kind
\* ('%' before a number in 0-100 before a decimal in 0-1), the first in G, F,
\* H, I, J, E order within that kind; with no such cell the row gives no result
C24_PercentageColumnChoice ==
    pc \in {"hier", "calc"} =>
        IF ClaimedCands = {} THEN look.hit = 0 /\ look.ret = Ok(F64Zero)
        ELSE \E i \in ClaimedCands :
                /\ \A x \in ClaimedCands :
                      LET ri == ClaimedRank(tracker_ws[PctRowIndex].c[check_columns[i]])
                          rx == ClaimedRank(tracker_ws[PctRowIndex].c[check_columns[x]])
                      IN  ri < rx \/ (ri = rx /\ i <= x)
                /\ look.hit = PctRowIndex
                /\ look.ret = parse_percentage_value(tracker_ws[PctRowIndex].c[check_columns[i]])

-----------------------------------------------------------------------------
(* The row range of an NTA search                                          *)

\* the bold row whose section holds the row
AnchorOf(row) == Last({r \in Anchors(tracker_ws) : r < row})

\* C25: in a search for tower NTA-01 the row that supplies the percentage lies
\* in a section anchored in rows 6-35, in a search for tower NTA-02 in a
\* section anchored at row 36 or later, whatever the parent labels
C25_RowRangeOfTower ==
    (pc \in {"hier", "calc"} /\ IsNta(target.tower) /\ look.hit # 0) =>
        IF target.tower = "NTA-01"
        THEN 6 <= AnchorOf(look.hit) /\ AnchorOf(look.hit) <= 35
        ELSE AnchorOf(look.hit) >= 36

-----------------------------------------------------------------------------
(* The report tables and the date of the run                               *)

\* the row the table's builder makes from the same workbooks in a run whose
\* datetime.now().month is current_month
TableAt(current_month) ==
    IF table.builder = "veridia_t6"
    THEN build_t6_milestone_dataframe(kra_targets, tracker_counts,
                                      get_previous_months(current_month))
    ELSE IF table.builder = "eligo_finishing"
    THEN build_tower_g_finishing_dataframe(kra_targets, tracker_counts,
                                           get_previous_months(current_month))
    ELSE IF table.builder = "veridia_t5"
    THEN get_t5_targets_and_progress(kra_targets, tracker_counts,
                                     get_previous_months(current_month))
    ELSE table

\* C30: the June percentage and achieved text of a table are the ones the same
\* builder gives from the same workbooks in a run of any other month
C30_ClockIndependent ==
    pc = "built" =>
        \A current_month \in {6, 7} :
            /\ TableAt(current_month).pct["June"] = table.pct["June"]
            /\ TableAt(current_month).achieved["June"] = table.achieved["June"]

-----------------------------------------------------------------------------
(* The front end (app.py): browser sessions of one Streamlit server, the   *)
(* report scripts they start and the .xlsx files of the working directory  *)

\* two of the five configured projects
PROJECTS == {"Veridia", "Eden"}

Sessions == {1, 2}

\* the most script runs requested, and the latest time reached
MaxRuns == 2

MaxClock == 2

\* find_generated_file: a file counts as recent for 600 seconds
RecentWindow == 2

NoProject == ""

NoFile == [project |-> "", ctime |-> 0, run |-> 0]

\* an .xlsx file: the project whose patterns its name matches, its creation
\* time and the script run that wrote it (0: it was there before any run)
File(p, t, r) == [project |-> p, ctime |-> t, run |-> r]

\* the session state main() initialises
Welcome ==
    [stage |-> "welcome", selected_project |-> NoProject, report_file |-> NoFile,
     waiting |-> FALSE, run |-> 0]

\* the project is forgotten, the stage is kept
ForgetProject(sess) == [sess EXCEPT !.selected_project = NoProject]

\* 'Start Over' and 'Generate Another Report'
StartAgain(sess) == Welcome

\* the run's outcome is not recorded
Unfinished(sess, result) == sess

\* main(), processing stage: success, result = run_project_script(proj)
Finished(sess, result) ==
    IF result # NoFile
    THEN [sess EXCEPT !.stage = "completed", !.report_file = result, !.waiting = FALSE]
    ELSE [sess EXCEPT !.stage = "error", !.waiting = FALSE]

\* max(matches, key=os.path.getctime): a file no other is newer than
Latest(S) == {f \in S : \A g \in S : g.ctime <= f.ctime}

\* (current_time - file_time) < 600
Recent(f, t) == t - f.ctime < RecentWindow

\* app.py find_generated_file: the files it can return, NoFile for None
find_generated_file(fs, project_name, t) ==
    With({f \in Latest({g \in fs : g.project = project_name}) : Recent(f, t)},
         LAMBDA by_pattern :
            IF by_pattern # {} THEN by_pattern
            ELSE IF {f \in Latest(fs) : Recent(f, t)} # {}
            THEN {f \in Latest(fs) : Recent(f, t)}
            ELSE {NoFile})

\* app.py cleanup_resources: every running report script is terminated
cleanup_resources(running) == {}

InitApp ==
    /\ pc = "app"
    /\ NoParse /\ NoLookup /\ NoCount /\ NoReport /\ NoTable /\ NoScore
    /\ session = [s \in Sessions |-> Welcome]
    /\ files \in SUBSET {File(p, 0, 0) : p \in PROJECTS}
    /\ procs = {}
    /\ runs = 0
    /\ wall_clock = 0

Others == <<pc, parseVars, lookVars, countVars, reportVars, tableVars, scoreVars>>

\* a project button
SelectProject(s) ==
    /\ session[s].stage = "welcome" /\ session[s].selected_project = NoProject
    /\ runs < MaxRuns
    /\ \E key \in PROJECTS :
          session' = [session EXCEPT ![s] = [@ EXCEPT !.selected_project = key,
                                                      !.stage = "processing",
                                                      !.run = runs + 1]]
    /\ runs' = runs + 1
    /\ UNCHANGED <<files, procs, wall_clock, Others>>

\* run_project_script: the script file is not there
ScriptMissing(s) ==
    /\ session[s].stage = "processing" /\ ~session[s].waiting
    /\ session' = [session EXCEPT ![s] = Finished(@, NoFile)]
    /\ UNCHANGED <<files, procs, runs, wall_clock, Others>>

\* run_project_script: an exception before the script runs; cleanup_resources
RunnerRaises(s) ==
    /\ session[s].stage = "processing" /\ ~session[s].waiting
    /\ session' = [session EXCEPT ![s] = Finished(@, NoFile)]
    /\ procs' = cleanup_resources(procs)
    /\ UNCHANGED <<files, runs, wall_clock, Others>>

\* run_project_script: subprocess.Popen, then process.communicate blocks
Popen(s) ==
    /\ session[s].stage = "processing" /\ ~session[s].waiting
    /\ session' = [session EXCEPT ![s].waiting = TRUE]
    /\ procs' = procs \cup {session[s].run}
    /\ UNCHANGED <<files, runs, wall_clock, Others>>

\* the script exits by itself; with return code 0 find_generated_file decides
ScriptExits(s) ==
    /\ session[s].waiting /\ session[s].run \in procs
    /\ \E returncode \in {0, 1}, wrote \in BOOLEAN :
          /\ files' = IF wrote
                      THEN files \cup {File(session[s].selected_project, wall_clock,
                                            session[s].run)}
                      ELSE files
          /\ IF returncode # 0
             THEN session' = [session EXCEPT ![s] = Finished(@, NoFile)]
             ELSE \E generated_file \in find_generated_file(
                                           files', session[s].selected_project, wall_clock) :
                     session' = [session EXCEPT ![s] = Finished(@, generated_file)]
    /\ procs' = procs \ {session[s].run}
    /\ UNCHANGED <<runs, wall_clock, Others>>

\* the script was terminated from outside: communicate returns a nonzero code
ScriptTerminated(s) ==
    /\ session[s].waiting /\ session[s].run \notin procs
    /\ session' = [session EXCEPT ![s] = Finished(@, NoFile)]
    /\ UNCHANGED <<files, procs, runs, wall_clock, Others>>

\* subprocess.TimeoutExpired: terminate, kill, cleanup_resources
Timeout(s) ==
    /\ session[s].waiting /\ session[s].run \in procs
    /\ session' = [session EXCEPT ![s] = Finished(@, NoFile)]
    /\ procs' = cleanup_resources(procs \ {session[s].run})
    /\ UNCHANGED <<files, runs, wall_clock, Others>>

\* 'Clear Memory', on a page whose script run has ended
ClearMemory(s) ==
    /\ session[s].selected_project # NoProject \/ session[s].stage # "welcome"
    /\ session[s].stage # "processing"
    /\ procs' = cleanup_resources(procs)
    /\ UNCHANGED <<session, files, runs, wall_clock, Others>>

\* 'Clear & Retry'
ClearAndRetry(s) ==
    /\ session[s].stage = "error"
    /\ runs < MaxRuns
    /\ procs' = cleanup_resources(procs)
    /\ session' = [session EXCEPT ![s] = [@ EXCEPT !.stage = "processing", !.run = runs + 1]]
    /\ runs' = runs + 1
    /\ UNCHANGED <<files, wall_clock, Others>>

\* 'Try Again'
TryAgain(s) ==
    /\ session[s].stage = "error"
    /\ runs < MaxRuns
    /\ session' = [session EXCEPT ![s] = [@ EXCEPT !.stage = "processing", !.run = runs + 1]]
    /\ runs' = runs + 1
    /\ UNCHANGED <<files, procs, wall_clock, Others>>

\* 'Start Over'
StartOver(s) ==
    /\ session[s].stage = "error"
    /\ session' = [session EXCEPT ![s] = StartAgain(@)]
    /\ UNCHANGED <<files, procs, runs, wall_clock, Others>>

\* 'Generate Another Report'
GenerateAnother(s) ==
    /\ session[s].stage = "completed"
    /\ session' = [session EXCEPT ![s] = StartAgain(@)]
    /\ UNCHANGED <<files, procs, runs, wall_clock, Others>>

\* five minutes pass
Tick ==
    /\ pc = "app"
    /\ wall_clock < MaxClock
    /\ wall_clock' = wall_clock + 1
    /\ UNCHANGED <<session, files, procs, runs, Others>>

\* the steps of a session's script run, which go on without the user
RunStep(s) ==
    \/ ScriptMissing(s) \/ RunnerRaises(s) \/ Popen(s)
    \/ ScriptExits(s) \/ ScriptTerminated(s) \/ Timeout(s)

NextApp ==
    \/ Tick
    \/ \E s \in Sessions : SelectProject(s)
    \/ \E s \in Sessions : ScriptMissing(s)
    \/ \E s \in Sessions : RunnerRaises(s)
    \/ \E s \in Sessions : Popen(s)
    \/ \E s \in Sessions : ScriptExits(s)
    \/ \E s \in Sessions : ScriptTerminated(s)
    \/ \E s \in Sessions : Timeout(s)
    \/ \E s \in Sessions : ClearMemory(s)
    \/ \E s \in Sessions : ClearAndRetry(s)
    \/ \E s \in Sessions : TryAgain(s)
    \/ \E s \in Sessions : StartOver(s)
    \/ \E s \in Sessions : GenerateAnother(s)

SpecApp == InitApp /\ [][NextApp]_vars

\* the script run of a session proceeds to its end: main() is not suspended,
\* and communicate(timeout=...) returns
SpecAppLive == SpecApp /\ \A s \in Sessions : WF_vars(RunStep(s))


\* C26: the report file of a completed session was written by the session's
\* own script run and is a report of the selected project
C26_ReportIsOfThisRun ==
    \A s \in DOMAIN session :
        session[s].stage = "completed" =>
            /\ session[s].report_file.run = session[s].run
            /\ session[s].report_file.project = session[s].selected_project

\* C27: the stage is one of the four; in processing, completed and error the
\* selected project is a configured one; in completed a report file is recorded
C27_SessionStates ==
    \A s \in DOMAIN session :
        /\ session[s].stage \in {"welcome", "processing", "completed", "error"}
        /\ session[s].stage \in {"processing", "completed", "error"} =>
              session[s].selected_project \in PROJECTS
        /\ session[s].stage = "completed" => session[s].report_file # NoFile

\* one session completed on its second run while the other ended in error
C27_Witness ==
    /\ pc = "app"
    /\ \E s, t \in Sessions :
          /\ session[s].stage = "completed" /\ session[s].run = MaxRuns
          /\ session[s].report_file.run = session[s].run
          /\ session[t].stage = "error"

\* C28: a session in stage processing eventually reaches completed or error
C28_ProcessingEnds ==
    \A s \in Sessions :
        (pc = "app" /\ session[s].stage = "processing")
            ~> (session[s].stage \in {"completed", "error"})

\* a session's script was terminated from outside while it waited, and the
\* session reached error
C28_Witness ==
    /\ pc = "app"
    /\ \E s \in Sessions :
          /\ session[s].stage = "error" /\ session[s].run > 0 /\ ~session[s].waiting
          /\ \E t \in Sessions : session[t].waiting /\ session[t].run \notin procs

\* C29: a step that is not the session's own leaves the script the session
\* waits for running
C29_NoForeignTermination ==
    [][\A s \in DOMAIN session :
          (session[s].waiting /\ session[s].run \in procs /\ session'[s] = session[s])
              => session[s].run \in procs']_vars

====
